---- MODULE Spec2Model ----
(***************************************************************************)
(* Verification model of the faceblur tracking core: the Hungarian         *)
(* assignment solver (cpp/src/hungarian.cpp), the per-track Kalman box     *)
(* tracker bookkeeping (cpp/src/kalman_filter.cpp) and the OC-SORT engine  *)
(* (OCSort::update and its two association passes).                        *)
(*                                                                         *)
(* Numbers: costs and coordinates are integers (grid units), scores and    *)
(* confidences are integer hundredths, IoU is kept as an exact fraction    *)
(* and compared by cross-multiplication.                                   *)
(***************************************************************************)
EXTENDS Integers, Sequences, FiniteSets, TLC

VARIABLES
    \* ---- HungarianAlgorithm::solve harness ----
    h_pc,          \* "idle" | "input" | "done", and taken step by step
                   \* "step2a" | "step2b" | "step3" | "step4" | "step5"
    h_cost,        \* the caller's cost_matrix: [rows, cols, m, eps]
    h_assignment,  \* the assignment vector written by solve (0-based function)
    h_ret,         \* the value returned by solve
    h_st,          \* solve taken step by step: the working arrays of
                   \* assignmentOptimal and the arguments of step4
    \* ---- OCSort engine ----
    cfg,           \* constructor arguments: iou_thresh, max_age, min_hits, ...
    trackers,      \* trackers_: sequence of KalmanBoxTracker records
    next_id,       \* next_id_
    frame_count,   \* frame_count_
    finished,      \* finished_appearances_: ids of retired trackers with appearance
    result,        \* the map returned by the last update call: id -> TrackResult
    \* ---- history of the engine (read by no action) ----
    retired,       \* ids of all trackers removed so far
    last,          \* what the last update call saw and did
    history,       \* per id: calls missed in a row, detection of the last match
    issued,        \* the ids given to trackers, in the order they were given
    take_out,      \* the map returned by takeFinishedAppearances, when it was the last call
    returned,      \* per id: the number of takeFinishedAppearances calls that returned it
    retired_app,   \* ids of the removed trackers that had taken in a sample
    fresh,         \* the same update calls since the last reset on a new engine
    prev,          \* the engine and the warp argument at the start of the last update call
    \* ---- FacePipeline::process ----
    p_pc,          \* "idle" | "track" | "link" | "merge" | "filter" | "done"
    scenario,      \* what the engine emits, per track id
    p_i,           \* the loop variable i of the tracking loop
    track_data,    \* track_id -> list of TrackFrames
    tracklets,     \* the TrackletSummary list
    appearances,   \* the ids with a published appearance
    p_sim,         \* cosine_sim per pair of ids
    uf_parent,     \* uf.parent
    links,         \* the pairs of tracklet positions united
    merged_data,   \* root id -> merged frames
    tracks,        \* result.tracks
    \* ---- one KalmanBoxTracker driven directly ----
    st_trk,        \* the tracker of RunOcsortSelfTest: filter block and ORU state
    test,          \* the locals of RunOcsortSelfTest
    bank,          \* appearance_bank_q_[0 .. appearance_bank_size_ - 1], has_appearance_
    fed,           \* the observations given to the tracker
    \* ---- FacePipeline::process, detection sampling and the engine's input ----
    d_pc,          \* "idle" | "detect" | "last" | "track" | "done"
    d_in,          \* the frames and rates given: which decode, which show a face
    d_i,           \* the loop variable i of the current loop
    detections,    \* the keys of the detections map
    d_calls,       \* per frame: the number of detectSingle calls
    prev_ok,       \* prev_ok
    d_fed,         \* per tracking-loop iteration: what tracker.update was given
    \* ---- the score matrix of associate for one tracker ----
    ocm_in,        \* the tracker's two observations and two candidate detections
    ocm_out        \* the tracker at association and the terms of the two scores

hvars == <<h_pc, h_cost, h_assignment, h_ret, h_st>>
evars == <<cfg, trackers, next_id, frame_count, finished, result>>
gvars == <<retired, last, history, issued, take_out, returned, retired_app,
           fresh, prev>>
pvars == <<p_pc, scenario, p_i, track_data, tracklets, appearances, p_sim,
           uf_parent, links, merged_data, tracks>>
svars == <<st_trk, test, bank, fed>>
dvars == <<d_pc, d_in, d_i, detections, d_calls, prev_ok, d_fed>>
ovars == <<ocm_in, ocm_out>>
vars == <<hvars, evars, gvars, pvars, svars, dvars, ovars>>

-----------------------------------------------------------------------------
(* Bounds of the model *)

\* largest number of rows / columns of a cost matrix given to solve directly
MaxDim == 3

\* the entries a directly given cost matrix is filled from (negative included)
CostValues == {-1, 0, 2}

\* DBL_EPSILON in the unit the entries of a directly given matrix are
\* counted in: 1 when the entries are multiples of a step of at least
\* DBL_EPSILON, 2 when they are multiples of half of DBL_EPSILON
EpsUnits == {1, 2}

-----------------------------------------------------------------------------
(* Small helpers *)

Min2(a, b) == IF a <= b THEN a ELSE b
Max2(a, b) == IF a >= b THEN a ELSE b

RECURSIVE SumOver(_, _)
\* sum of f[x] over the finite set S
SumOver(S, f) ==
    IF S = {} THEN 0
    ELSE LET x == CHOOSE y \in S : TRUE IN f[x] + SumOver(S \ {x}, f)

\* smallest element of a non-empty finite set of integers
SetMin(S) == CHOOSE x \in S : \A y \in S : x <= y

\* the function f itself, tabulated: comparing a function expression makes
\* TLC compute its table once instead of its body at every application
Tab(f) == IF f = f THEN f ELSE f

-----------------------------------------------------------------------------
(* HungarianAlgorithm (cpp/src/hungarian.cpp)                              *)
(*                                                                         *)
(* A matrix is a record [rows, cols, m] with m a function on               *)
(* (0..rows-1) \X (0..cols-1); m[<<row, col>>] is the C++ element          *)
(* dist_matrix[row + n_of_rows * col].  The working state of               *)
(* assignmentOptimal is the record                                         *)
(*   [R, C, min_dim, dist, star, prime, ccols, crows]                      *)
(* (star_matrix, prime_matrix, covered_cols, covered_rows).                *)
(***************************************************************************)

\* stands for the C constant DBL_MAX (larger than any cost of the model)
DBL_MAX == 2000000000

Rows(st) == 0 .. (st.R - 1)
Cols(st) == 0 .. (st.C - 1)

Abs(v) == IF v < 0 THEN -v ELSE v

\* zero test with <= in place of <
IsZeroWide(st, v) == Abs(v) <= st.eps

\* zero test of the code: std::abs(v) < DBL_EPSILON, where st.eps is
\* DBL_EPSILON in the unit the entries of the matrix are counted in
IsZero(st, v) == Abs(v) < st.eps

\* first column >= 0 holding a TRUE flag of matrix b in the row, or -1
FirstColInRow(st, b, row) ==
    LET S == {c \in Cols(st) : b[<<row, c>>]} IN
    IF S = {} THEN -1 ELSE SetMin(S)

\* first row holding a TRUE flag of matrix b in the column, or -1
FirstRowInCol(st, b, col) ==
    LET S == {r \in Rows(st) : b[<<r, col>>]} IN
    IF S = {} THEN -1 ELSE SetMin(S)

\* for each row the first starred column, -1 when the row has no star
buildAssignmentVector(st) ==
    Tab([row \in Rows(st) |-> FirstColInRow(st, st.star, row)])

\* sums dist_matrix at the assigned cells; m is the matrix it is handed
computeAssignmentCost(assignment, m, n_of_rows) ==
    LET rs == {row \in 0 .. (n_of_rows - 1) : assignment[row] >= 0} IN
    SumOver(rs, [row \in rs |-> m[<<row, assignment[row]>>]])

\* row reduction: subtract each row's minimum from the row
RowReduce(st) ==
    [st EXCEPT !.dist =
        Tab([p \in Rows(st) \X Cols(st) |->
            st.dist[p] - SetMin({st.dist[<<p[1], c>>] : c \in Cols(st)})])]

\* column reduction: subtract each column's minimum from the column
ColReduce(st) ==
    [st EXCEPT !.dist =
        Tab([p \in Rows(st) \X Cols(st) |->
            st.dist[p] - SetMin({st.dist[<<r, p[2]>>] : r \in Rows(st)})])]

RECURSIVE StarRows(_, _)
\* rows <= cols: for each row in order star the first zero whose column is
\* not covered yet, and cover that column
StarRows(st, row) ==
    IF row >= st.R THEN st
    ELSE
        LET S == {c \in Cols(st) : IsZero(st, st.dist[<<row, c>>]) /\ ~st.ccols[c]} IN
        IF S = {} THEN StarRows(st, row + 1)
        ELSE LET c == SetMin(S) IN
             StarRows([st EXCEPT !.star[<<row, c>>] = TRUE,
                                 !.ccols[c] = TRUE], row + 1)

RECURSIVE StarCols(_, _)
\* rows > cols: for each column in order star the first zero whose row is
\* not covered yet, cover the column and (temporarily) the row
StarCols(st, col) ==
    IF col >= st.C THEN st
    ELSE
        LET S == {r \in Rows(st) : IsZero(st, st.dist[<<r, col>>]) /\ ~st.crows[r]} IN
        IF S = {} THEN StarCols(st, col + 1)
        ELSE LET r == SetMin(S) IN
             StarCols([st EXCEPT !.star[<<r, col>>] = TRUE,
                                 !.ccols[col] = TRUE,
                                 !.crows[r] = TRUE], col + 1)

RECURSIVE step2a(_), step2b(_), step3(_), Step3Scan(_, _, _, _)
RECURSIVE step4(_, _, _), Step4Walk(_, _, _), step5(_)

\* cover each column containing a starred zero
step2a(st) ==
    step2b([st EXCEPT !.ccols =
        Tab([c \in Cols(st) |->
            st.ccols[c] \/ (\E r \in Rows(st) : st.star[<<r, c>>])])])

\* variant of step2b that stops one covered column early
step2bEarly(st) ==
    LET n_covered_cols == Cardinality({c \in Cols(st) : st.ccols[c]}) IN
    IF n_covered_cols >= st.min_dim - 1
    THEN [st EXCEPT !.done = TRUE]
    ELSE step3(st)

\* done when the number of covered columns equals min_dim
step2b(st) ==
    LET n_covered_cols == Cardinality({c \in Cols(st) : st.ccols[c]}) IN
    IF n_covered_cols = st.min_dim
    THEN [st EXCEPT !.done = TRUE]
    ELSE step3(st)

step3(st) == Step3Scan(st, 0, 0, FALSE)

\* the while (zeros_found) / for col / for row scan of step3, resumed at
\* (col, row) with the zeros_found flag of the current pass
Step3Scan(st, col, row, zeros_found) ==
    IF col >= st.C THEN
        IF zeros_found THEN Step3Scan(st, 0, 0, FALSE) ELSE step5(st)
    ELSE IF row = 0 /\ st.ccols[col] THEN Step3Scan(st, col + 1, 0, zeros_found)
    ELSE IF row >= st.R THEN Step3Scan(st, col + 1, 0, zeros_found)
    ELSE IF ~st.crows[row] /\ IsZero(st, st.dist[<<row, col>>]) THEN
        LET primed == [st EXCEPT !.prime[<<row, col>>] = TRUE]
            star_col == FirstColInRow(st, st.star, row)
        IN  IF star_col >= 0
            THEN Step3Scan([primed EXCEPT !.crows[row] = TRUE,
                                          !.ccols[star_col] = FALSE],
                           col + 1, 0, TRUE)
            ELSE step4(primed, row, col)
    ELSE Step3Scan(st, col, row + 1, zeros_found)

\* the while (star_row >= 0) loop of step4: ns is new_star_matrix, the
\* stars and primes are read from the unchanged st
Step4Walk(st, ns, col) ==
    LET star_row == FirstRowInCol(st, st.star, col) IN
    IF star_row < 0 THEN ns
    ELSE
        LET prime_col == FirstColInRow(st, st.prime, star_row)
            ns1 == [ns EXCEPT ![<<star_row, col>>] = FALSE]
            ns2 == [ns1 EXCEPT ![<<star_row, prime_col>>] = TRUE]
        IN  Step4Walk(st, ns2, prime_col)

\* augment along the alternating path that starts at the primed (row, col)
step4(st, row, col) ==
    LET ns0 == [st.star EXCEPT ![<<row, col>>] = TRUE]
        ns  == Step4Walk(st, ns0, col)
    IN  step2a([st EXCEPT !.star = ns,
                          !.prime = [p \in Rows(st) \X Cols(st) |-> FALSE],
                          !.crows = [r \in Rows(st) |-> FALSE]])

\* add the smallest uncovered value to covered rows, subtract it from
\* uncovered columns
step5(st) ==
    LET unc == {st.dist[<<r, c>>] :
                    r \in {x \in Rows(st) : ~st.crows[x]},
                    c \in {x \in Cols(st) : ~st.ccols[x]}}
        lows == {v \in unc : v < DBL_MAX}
        min_val == IF lows = {} THEN DBL_MAX ELSE SetMin(lows)
    IN  step3([st EXCEPT !.dist =
            Tab([p \in Rows(st) \X Cols(st) |->
                st.dist[p]
                + (IF st.crows[p[1]] THEN min_val ELSE 0)
                - (IF ~st.ccols[p[2]] THEN min_val ELSE 0)])])

\* the working state at the start of assignmentOptimal
InitialWork(dist_matrix, n_of_rows, n_of_cols, eps) ==
    [R |-> n_of_rows, C |-> n_of_cols, eps |-> eps,
     min_dim |-> Min2(n_of_rows, n_of_cols),
     dist  |-> dist_matrix,
     star  |-> [p \in (0 .. n_of_rows - 1) \X (0 .. n_of_cols - 1) |-> FALSE],
     prime |-> [p \in (0 .. n_of_rows - 1) \X (0 .. n_of_cols - 1) |-> FALSE],
     ccols |-> [c \in 0 .. n_of_cols - 1 |-> FALSE],
     crows |-> [r \in 0 .. n_of_rows - 1 |-> FALSE],
     done  |-> FALSE]

\* the matrix computeAssignmentCost is handed at the end of
\* assignmentOptimal: the working dist_matrix (reduced in place)
CostSource(fin, dist_matrix) == fin.dist

\* preliminary reduction and starring, the step cycle, then the assignment
\* vector and its cost
assignmentOptimal(dist_matrix, n_of_rows, n_of_cols, eps) ==
    LET st0 == InitialWork(dist_matrix, n_of_rows, n_of_cols, eps)
        pre == IF n_of_rows <= n_of_cols
               THEN StarRows(RowReduce(st0), 0)
               ELSE [StarCols(ColReduce(st0), 0) EXCEPT
                        !.crows = [r \in 0 .. n_of_rows - 1 |-> FALSE]]
        fin == step2b(pre)
        assignment == buildAssignmentVector(fin)
    IN  [assignment |-> assignment,
         cost |-> computeAssignmentCost(assignment, CostSource(fin, dist_matrix),
                                        n_of_rows)]

\* --- the same steps one at a time, on doubles up to the ends of their
\* range: the finite doubles are -DBL_MAX .. DBL_MAX ---

\* +infinity (the negated value is -infinity) and the NaN
Infinity == DBL_MAX + 1
NaN == DBL_MAX + 2

\* a + b of doubles: a sum beyond DBL_MAX is an infinity, infinities of
\* opposite sign add up to the NaN
dAdd(a, b) ==
    IF a = NaN \/ b = NaN THEN NaN
    ELSE IF a = Infinity THEN (IF b = -Infinity THEN NaN ELSE Infinity)
    ELSE IF a = -Infinity THEN (IF b = Infinity THEN NaN ELSE -Infinity)
    ELSE IF b = Infinity \/ b = -Infinity THEN b
    ELSE IF a > 0 /\ b > DBL_MAX - a THEN Infinity
    ELSE IF a < 0 /\ b < (-DBL_MAX) - a THEN -Infinity
    ELSE a + b

\* a - b of doubles
dSub(a, b) == dAdd(a, IF b = NaN THEN NaN ELSE -b)

\* a < b of doubles: false when either is the NaN
dLess(a, b) == a # NaN /\ b # NaN /\ a < b

\* min_val after "if (val < min_val) min_val = val" over the values S,
\* started at start
ScanMin(start, S) ==
    LET lows == {v \in S : dLess(v, start)} IN
    IF lows = {} THEN start ELSE SetMin(lows)

\* the working arrays before assignmentOptimal is entered
NoWork == [w |-> <<>>, row |-> -1, col |-> -1]

\* the preliminary steps of assignmentOptimal: reduction, starring, and
\* for rows > cols the reset of the row covers
Preliminary(dist_matrix, n_of_rows, n_of_cols, eps) ==
    LET st0 == InitialWork(dist_matrix, n_of_rows, n_of_cols, eps)
        byrow == [st0 EXCEPT !.dist =
                    [p \in Rows(st0) \X Cols(st0) |->
                        dSub(st0.dist[p],
                             ScanMin(st0.dist[<<p[1], 0>>],
                                     {st0.dist[<<p[1], c>>] : c \in Cols(st0)}))]]
        bycol == [st0 EXCEPT !.dist =
                    [p \in Rows(st0) \X Cols(st0) |->
                        dSub(st0.dist[p],
                             ScanMin(st0.dist[<<0, p[2]>>],
                                     {st0.dist[<<r, p[2]>>] : r \in Rows(st0)}))]]
    IN  IF n_of_rows <= n_of_cols
        THEN StarRows(byrow, 0)
        ELSE [StarCols(bycol, 0) EXCEPT
                 !.crows = [r \in 0 .. n_of_rows - 1 |-> FALSE]]

\* step2a up to its call of step2b
Cover2a(st) ==
    [st EXCEPT !.ccols =
        [c \in Cols(st) |-> st.ccols[c] \/ (\E r \in Rows(st) : st.star[<<r, c>>])]]

\* step3 up to its call of step4 (with the row and column handed over)
\* or of step5
RECURSIVE Scan3(_, _, _, _)
Scan3(st, col, row, zeros_found) ==
    IF col >= st.C THEN
        IF zeros_found THEN Scan3(st, 0, 0, FALSE)
        ELSE [to |-> "step5", w |-> st, row |-> -1, col |-> -1]
    ELSE IF row = 0 /\ st.ccols[col] THEN Scan3(st, col + 1, 0, zeros_found)
    ELSE IF row >= st.R THEN Scan3(st, col + 1, 0, zeros_found)
    ELSE IF ~st.crows[row] /\ IsZero(st, st.dist[<<row, col>>]) THEN
        LET primed == [st EXCEPT !.prime[<<row, col>>] = TRUE]
            star_col == FirstColInRow(st, st.star, row)
        IN  IF star_col >= 0
            THEN Scan3([primed EXCEPT !.crows[row] = TRUE,
                                      !.ccols[star_col] = FALSE],
                       col + 1, 0, TRUE)
            ELSE [to |-> "step4", w |-> primed, row |-> row, col |-> col]
    ELSE Scan3(st, col, row + 1, zeros_found)

\* step4 up to its call of step2a
Augment4(st, row, col) ==
    [st EXCEPT !.star = Step4Walk(st, [st.star EXCEPT ![<<row, col>>] = TRUE], col),
               !.prime = [p \in Rows(st) \X Cols(st) |-> FALSE],
               !.crows = [r \in Rows(st) |-> FALSE]]

\* min_val of step5: the smallest uncovered value below DBL_MAX, else
\* DBL_MAX
MinUncovered(st) ==
    ScanMin(DBL_MAX, {st.dist[<<r, c>>] :
                          r \in {x \in Rows(st) : ~st.crows[x]},
                          c \in {x \in Cols(st) : ~st.ccols[x]}})

\* step5 up to its call of step3: min_val is added to the covered rows,
\* then subtracted from the uncovered columns
Shift5(st, min_val) ==
    [st EXCEPT !.dist =
        [p \in Rows(st) \X Cols(st) |->
            LET added == IF st.crows[p[1]] THEN dAdd(st.dist[p], min_val)
                         ELSE st.dist[p]
            IN  IF ~st.ccols[p[2]] THEN dSub(added, min_val) ELSE added]]

\* HungarianAlgorithm::solve: the empty cases, else assignmentOptimal
solve(cost_matrix) ==
    IF cost_matrix.rows = 0 THEN [assignment |-> <<>>, cost |-> 0]
    ELSE IF cost_matrix.cols = 0
    THEN [assignment |-> [row \in 0 .. cost_matrix.rows - 1 |-> -1], cost |-> 0]
    ELSE assignmentOptimal(cost_matrix.m, cost_matrix.rows, cost_matrix.cols,
                           cost_matrix.eps)

-----------------------------------------------------------------------------
(* Geometry and detections (cpp/src/kalman_filter.hpp, kalman_filter.cpp)  *)
(*                                                                         *)
(* Coordinates are integer grid units.  Real-valued scores (IoU, combined  *)
(* association scores, costs) are fixed-point integers with FX units to 1. *)
(* Detection scores, reid qualities and confidences are hundredths.        *)
(***************************************************************************)

\* fixed-point unit of IoU and association scores
FX == 3 * 100

\* a detection score or reid quality of 1.0 in hundredths
Unit == 10 * 10

BoxOf(x1, y1, x2, y2) == [x1 |-> x1, y1 |-> y1, x2 |-> x2, y2 |-> y2]

width(b) == b.x2 - b.x1
height(b) == b.y2 - b.y1
area(b) == width(b) * height(b)

\* BBox::iou, as a fixed-point value
iou(a, b) ==
    LET ix1 == Max2(a.x1, b.x1)
        iy1 == Max2(a.y1, b.y1)
        ix2 == Min2(a.x2, b.x2)
        iy2 == Min2(a.y2, b.y2)
    IN  IF ix2 < ix1 \/ iy2 < iy1 THEN 0
        ELSE LET intersection == (ix2 - ix1) * (iy2 - iy1)
                 union_area == area(a) + area(b) - intersection
             IN  IF union_area > 0 THEN (intersection * FX) \div union_area ELSE 0

\* struct Detection; the 128-D reid vector itself is not represented, the
\* similarity of two vectors is an input of the association
DetectionOf(bbox, score, has_reid, reid_quality) ==
    [bbox |-> bbox, score |-> score, has_reid |-> has_reid,
     reid_quality |-> reid_quality]

\* the placeholder returned by kPreviousObservation when there is no
\* observation: bbox (-1,-1,-1,-1), score -1
Placeholder == DetectionOf(BoxOf(-1, -1, -1, -1), -Unit, FALSE, 0)

\* kMinReidUpdateQuality = 0.40
kMinReidUpdateQuality == 40

Sign(v) == IF v > 0 THEN 1 ELSE IF v < 0 THEN -1 ELSE 0

\* speed_direction / KalmanBoxTracker::speedDirection: the (dy, dx) unit
\* vector between two box centres.  Centres are compared doubled (x1 + x2);
\* displacements of the model are parallel to an axis, where the unit
\* vector is the pair of signs (the 1e-6 added to the norm is dropped).
speed_direction(from, to) ==
    LET dy == (to.y1 + to.y2) - (from.y1 + from.y2)
        dx == (to.x1 + to.x2) - (from.x1 + from.x2)
    IN  <<Sign(dy), Sign(dx)>>

\* warp_bbox_norm for a warp that translates by dx grid units in x
warp_bbox_norm(b, dx) == BoxOf(b.x1 + dx, b.y1, b.x2 + dx, b.y2)

-----------------------------------------------------------------------------
(* KalmanBoxTracker (cpp/src/kalman_filter.cpp)                            *)
(*                                                                         *)
(* The filter state x_ is kept as the box x that getState() returns and    *)
(* the velocity v of its centre in x (grid units per frame); the           *)
(* covariance is not represented.  The posterior of updateKF lies between  *)
(* the prediction and the measurement: the model takes either end, chosen  *)
(* by the gain g that the caller of updateKF supplies.                     *)
(***************************************************************************)

\* std::optional<Detection>
None == [has |-> FALSE]
Some(d) == [has |-> TRUE, det |-> d]

\* std::optional<std::array<float,2>> velocity_dir_
NoDir == <<>>

\* KalmanBoxTracker::KalmanBoxTracker(det, track_id, delta_t).  Of each
\* entry of oru_history_ the tracker keeps whether it holds a measurement.
NewTracker(det, track_id, delta_t) ==
    [track_id |-> track_id,
     time_since_update |-> 0,
     hits |-> 1,
     hit_streak |-> 1,
     age |-> 0,
     delta_t |-> delta_t,
     x |-> det.bbox,
     v |-> 0,
     last_observation |-> Some(det),
     observations_by_age |-> (0 :> det),
     velocity_dir |-> NoDir,
     has_appearance |-> (det.has_reid /\ det.reid_quality >= kMinReidUpdateQuality),
     oru_history |-> <<TRUE>>]

\* KalmanBoxTracker::getState
getState(t) == t.x

\* predictKF: x = F * x, the box moves by its velocity
predictKF(t) == [t EXCEPT !.x = warp_bbox_norm(t.x, t.v)]

\* updateKF: x = x + K * (z - H x).  Gain g = 1 lands on the measurement
\* and moves the velocity by the innovation, gain 0 keeps the prediction.
updateKF(t, z, g) ==
    [t EXCEPT !.x = BoxOf(t.x.x1 + g * (z.x1 - t.x.x1), t.x.y1 + g * (z.y1 - t.x.y1),
                          t.x.x2 + g * (z.x2 - t.x.x2), t.x.y2 + g * (z.y2 - t.x.y2)),
              !.v = t.v + g * (z.x1 - t.x.x1)]

\* predict with age_ left as it is
predictNoAge(t) ==
    LET p == predictKF(t) IN
    [p EXCEPT !.hit_streak = IF t.time_since_update > 0 THEN 0 ELSE t.hit_streak,
              !.time_since_update = t.time_since_update + 1]

\* predict with hit_streak_ left as it is
predictKeepStreak(t) ==
    LET p == predictKF(t) IN
    [p EXCEPT !.age = t.age + 1,
              !.time_since_update = t.time_since_update + 1]

\* KalmanBoxTracker::predict
predict(t) ==
    LET p == predictKF(t) IN
    [p EXCEPT !.age = t.age + 1,
              !.hit_streak = IF t.time_since_update > 0 THEN 0 ELSE t.hit_streak,
              !.time_since_update = t.time_since_update + 1]

\* the observation the velocity direction is measured from in update(det):
\* the one at age - dt for the largest dt in delta_t..1 that has one, else
\* the last observation
InertiaReference(t) ==
    LET S == {dt \in 1 .. t.delta_t : (t.age - dt) \in DOMAIN t.observations_by_age} IN
    IF S = {} THEN t.last_observation.det
    ELSE t.observations_by_age[t.age - (CHOOSE dt \in S : \A e \in S : e <= dt)]

\* KalmanBoxTracker::update(det) with an observation
updateWith(t, d, g) ==
    LET dir == IF t.last_observation.has /\ t.last_observation.det.score >= 0
               THEN speed_direction(InertiaReference(t).bbox, d.bbox)
               ELSE t.velocity_dir
        seen == [a \in DOMAIN t.observations_by_age \cup {t.age} |->
                    IF a = t.age THEN d ELSE t.observations_by_age[a]]
        u == [t EXCEPT !.velocity_dir = dir,
                       !.time_since_update = 0,
                       !.hits = t.hits + 1,
                       !.hit_streak = t.hit_streak + 1,
                       !.last_observation = Some(d),
                       !.observations_by_age = seen,
                       !.oru_history = Append(t.oru_history, TRUE),
                       !.has_appearance =
                           t.has_appearance
                           \/ (d.has_reid /\ Max2(0, d.reid_quality) >= kMinReidUpdateQuality)]
    IN  updateKF(u, d.bbox, g)

\* update(std::nullopt) counted as a hit
updateNoneHit(t) ==
    [t EXCEPT !.hits = @ + 1, !.oru_history = Append(t.oru_history, FALSE)]

\* update(std::nullopt) returning at once
updateNoneSilent(t) == t

\* KalmanBoxTracker::update(std::nullopt): an empty entry is pushed to
\* oru_history_, counters are left alone
updateNone(t) == [t EXCEPT !.oru_history = Append(t.oru_history, FALSE)]

\* applyWarp leaving last_observation where it was
applyWarpNotLast(t, dx) ==
    [t EXCEPT !.x = warp_bbox_norm(t.x, dx),
              !.observations_by_age =
                  [a \in DOMAIN t.observations_by_age |->
                      IF t.observations_by_age[a].score >= 0
                      THEN [t.observations_by_age[a] EXCEPT
                               !.bbox = warp_bbox_norm(t.observations_by_age[a].bbox, dx)]
                      ELSE t.observations_by_age[a]],
              !.velocity_dir = NoDir]

\* applyWarp leaving velocity_dir as it is
applyWarpKeepDir(t, dx) ==
    [t EXCEPT !.x = warp_bbox_norm(t.x, dx),
              !.last_observation =
                  IF t.last_observation.has /\ t.last_observation.det.score >= 0
                  THEN Some([t.last_observation.det EXCEPT
                                !.bbox = warp_bbox_norm(t.last_observation.det.bbox, dx)])
                  ELSE t.last_observation,
              !.observations_by_age =
                  [a \in DOMAIN t.observations_by_age |->
                      IF t.observations_by_age[a].score >= 0
                      THEN [t.observations_by_age[a] EXCEPT
                               !.bbox = warp_bbox_norm(t.observations_by_age[a].bbox, dx)]
                      ELSE t.observations_by_age[a]]]

\* KalmanBoxTracker::applyWarp for a translation by dx: the state, the last
\* observation and all stored observations move, velocity_dir is cleared;
\* a translation leaves the velocity as it is
applyWarp(t, dx) ==
    [t EXCEPT !.x = warp_bbox_norm(t.x, dx),
              !.last_observation =
                  IF t.last_observation.has /\ t.last_observation.det.score >= 0
                  THEN Some([t.last_observation.det EXCEPT
                                !.bbox = warp_bbox_norm(t.last_observation.det.bbox, dx)])
                  ELSE t.last_observation,
              !.observations_by_age =
                  [a \in DOMAIN t.observations_by_age |->
                      IF t.observations_by_age[a].score >= 0
                      THEN [t.observations_by_age[a] EXCEPT
                               !.bbox = warp_bbox_norm(t.observations_by_age[a].bbox, dx)]
                      ELSE t.observations_by_age[a]],
              !.velocity_dir = NoDir]

\* KalmanBoxTracker::velocityDir
velocityDir(t) == IF t.velocity_dir = NoDir THEN <<0, 0>> ELSE t.velocity_dir

\* the walk started at age - 1 instead of age - k
kPreviousObservationNearest(t, k) ==
    IF DOMAIN t.observations_by_age = {} THEN Placeholder
    ELSE
        LET S == {dt \in 1 .. k : (t.age - dt) \in DOMAIN t.observations_by_age} IN
        IF S # {}
        THEN t.observations_by_age[t.age - (CHOOSE dt \in S : \A e \in S : dt <= e)]
        ELSE t.observations_by_age[CHOOSE a \in DOMAIN t.observations_by_age :
                                      \A b \in DOMAIN t.observations_by_age : b <= a]

\* KalmanBoxTracker::kPreviousObservation
kPreviousObservation(t, k) ==
    IF DOMAIN t.observations_by_age = {} THEN Placeholder
    ELSE
        LET S == {dt \in 1 .. k : (t.age - dt) \in DOMAIN t.observations_by_age} IN
        IF S # {}
        THEN t.observations_by_age[t.age - (CHOOSE dt \in S : \A e \in S : e <= dt)]
        ELSE t.observations_by_age[CHOOSE a \in DOMAIN t.observations_by_age :
                                      \A b \in DOMAIN t.observations_by_age : b <= a]

-----------------------------------------------------------------------------
(* OCSort (association passes and update)                                  *)
(*                                                                         *)
(* trackers_ and detections are 1-based sequences; a match is a pair       *)
(* <<d, t>> of a detection index and a tracker index.                      *)
(***************************************************************************)

Idx(n) == [i \in 1 .. n |-> i]

\* the indices of 1..n that are in S, ascending
Pick(n, S) ==
    LET Test(i) == i \in S IN SelectSeq(Idx(n), Test)

\* the score given to a pair gated out by IoU: -1e6
GateScore == -(1000000 * FX)

\* inertia_ = 0.2, in hundredths
InertiaWeight == 20

\* (pi/2 - |acos(cosv)|) / pi for cosv in {-1, 0, 1}, fixed-point
AngleDiff(cosv) == (cosv * FX) \div 2

\* cosine_sim of the detection's vector and the tracker's appearance: the
\* value the caller supplies for the pair, -1 when none is supplied
SimOf(sim, d, t) == IF <<d, t>> \in DOMAIN sim THEN sim[<<d, t>>] ELSE -FX

\* the pairs for which the engine evaluates cosine_sim
ReidPairs(c, trks, dets) ==
    {p \in (1 .. Len(dets)) \X (1 .. Len(trks)) :
        c.use_reid /\ dets[p[1]].has_reid /\ trks[p[2]].has_appearance}

\* calls hungarian_.solve on a matrix indexed from 1 and returns the
\* assignment indexed from 1, with 0 for an unassigned row; one fixed-point
\* unit is far above DBL_EPSILON
SolveFrom1(cost, n_dets, n_trks) ==
    LET out == solve([rows |-> n_dets, cols |-> n_trks, eps |-> 1,
                      m |-> Tab([p \in (0 .. n_dets - 1) \X (0 .. n_trks - 1) |->
                                    cost[<<p[1] + 1, p[2] + 1>>]])])
    IN  Tab([d \in 1 .. n_dets |-> out.assignment[d - 1] + 1])

\* no OCM term
AngleCostNone(c, trk, det) == 0

\* the OCM term of a pair: direction consistency weighted by the score
AngleCost(c, trk, det) ==
    LET prev_obs == kPreviousObservation(trk, c.delta_t)
        inertia == velocityDir(trk)
        dir == speed_direction(prev_obs.bbox, det.bbox)
        cosv == Max2(-1, Min2(1, inertia[2] * dir[2] + inertia[1] * dir[1]))
    IN  IF prev_obs.score >= 0
        THEN (AngleDiff(cosv) * c.inertia * det.score) \div (Unit * Unit)
        ELSE 0

\* the OCM term and IoU of a pair: combined = iou + angle_cost
Combined(c, trk, det) == iou(det.bbox, getState(trk)) + AngleCost(c, trk, det)

\* the appearance bonus of a pair in the primary pass
ReidBonus(c, trks, dets, sim, d, t, iouv) ==
    IF iouv >= c.iou_thresh /\ <<d, t>> \in ReidPairs(c, trks, dets)
       /\ SimOf(sim, d, t) >= c.reid_cos_thresh
    THEN (c.reid_weight * ((SimOf(sim, d, t) + FX) \div 2)) \div FX
    ELSE 0

\* no gate: every assigned pair is accepted
GateAcceptsAny(c, iouv) == TRUE

\* the IoU gate on a pair the solver (or the fast path) assigned
GateAccepts(c, iouv) == iouv >= c.iou_thresh

\* the IoU of every (detection, tracker state) pair
PrimaryIoU(trks, dets) ==
    Tab([p \in (1 .. Len(dets)) \X (1 .. Len(trks)) |->
            iou(dets[p[1]].bbox, getState(trks[p[2]]))])

\* the combined score of every pair: IoU + OCM + appearance, or the gate
PrimaryScores(c, trks, dets, sim, iou_matrix) ==
    Tab([p \in DOMAIN iou_matrix |->
            IF iou_matrix[p] >= c.iou_thresh
            THEN iou_matrix[p] + AngleCost(c, trks[p[2]], dets[p[1]])
                 + ReidBonus(c, trks, dets, sim, p[1], p[2], iou_matrix[p])
            ELSE GateScore])

\* cost = shift - score, shift = isfinite(max_combined) ? max_combined : 0
PrimaryCost(c, iou_matrix, score_matrix) ==
    LET gated == {p \in DOMAIN iou_matrix : iou_matrix[p] >= c.iou_thresh}
        shift == IF gated = {} THEN 0
                 ELSE CHOOSE v \in {score_matrix[p] : p \in gated} :
                        \A p \in gated : score_matrix[p] <= v
    IN  Tab([p \in DOMAIN score_matrix |-> shift - score_matrix[p]])

\* every row and every column has at most one entry above the threshold,
\* and appearance is not in use
UseFastPath(c, iou_matrix, n_dets, n_trks) ==
    /\ ~c.use_reid
    /\ \A d \in 1 .. n_dets :
          Cardinality({t \in 1 .. n_trks : iou_matrix[<<d, t>>] > c.iou_thresh}) <= 1
    /\ \A t \in 1 .. n_trks :
          Cardinality({d \in 1 .. n_dets : iou_matrix[<<d, t>>] > c.iou_thresh}) <= 1

\* the assignment of the solver on the cost matrix of the primary pass
SolverAssignment(c, trks, dets, sim, iou_matrix) ==
    SolveFrom1(PrimaryCost(c, iou_matrix,
                           PrimaryScores(c, trks, dets, sim, iou_matrix)),
               Len(dets), Len(trks))

\* the assignment of the primary pass: the fast path, or the solver
PrimaryAssignment(c, trks, dets, sim, iou_matrix) ==
    IF UseFastPath(c, iou_matrix, Len(dets), Len(trks))
    THEN Tab([d \in 1 .. Len(dets) |->
            LET S == {t \in 1 .. Len(trks) : iou_matrix[<<d, t>>] > c.iou_thresh} IN
            IF S = {} THEN 0 ELSE SetMin(S)])
    ELSE SolverAssignment(c, trks, dets, sim, iou_matrix)

\* the rows whose assigned pair passes the IoU gate
AcceptedRows(c, iou_matrix, assignment, n_dets) ==
    {d \in 1 .. n_dets :
        assignment[d] >= 1 /\ GateAccepts(c, iou_matrix[<<d, assignment[d]>>])}

\* the three lists the primary pass returns
PrimaryLists(c, assignment, det_matched, n_dets, n_trks, fast) ==
    LET md == Pick(n_dets, det_matched) IN
    [matched |-> Tab([i \in 1 .. Len(md) |-> <<md[i], assignment[md[i]]>>]),
     unmatched_detections |-> Pick(n_dets, (1 .. n_dets) \ det_matched),
     unmatched_trackers |->
         Pick(n_trks, (1 .. n_trks) \ {assignment[d] : d \in det_matched}),
     fast |-> fast]

\* the primary pass handing every tracker on as unmatched
PrimaryAcceptOfferAll(c, iou_matrix, assignment, n_dets, n_trks) ==
    [PrimaryLists(c, assignment,
                  AcceptedRows(c, iou_matrix, assignment, n_dets),
                  n_dets, n_trks, UseFastPath(c, iou_matrix, n_dets, n_trks))
        EXCEPT !.unmatched_trackers = Idx(n_trks)]

\* the primary pass from the assignment on
PrimaryAccept(c, iou_matrix, assignment, n_dets, n_trks) ==
    PrimaryLists(c, assignment,
                 AcceptedRows(c, iou_matrix, assignment, n_dets),
                 n_dets, n_trks, UseFastPath(c, iou_matrix, n_dets, n_trks))

\* the primary pass from the IoU matrix on
PrimaryFromIoU(c, trks, dets, sim, iou_matrix) ==
    PrimaryAccept(c, iou_matrix,
                  PrimaryAssignment(c, trks, dets, sim, iou_matrix),
                  Len(dets), Len(trks))

\* OCSort::associate: the primary pass
associate(c, trks, dets, sim) ==
    IF Len(trks) = 0
    THEN [matched |-> <<>>, unmatched_detections |-> Idx(Len(dets)),
          unmatched_trackers |-> <<>>, fast |-> FALSE]
    ELSE IF Len(dets) = 0
    THEN [matched |-> <<>>, unmatched_detections |-> <<>>,
          unmatched_trackers |-> Idx(Len(trks)), fast |-> FALSE]
    ELSE PrimaryFromIoU(c, trks, dets, sim, PrimaryIoU(trks, dets))

\* the unmatched list handed back as it came in
RemoveNone(list, used) == list

\* "Remove matched entries from unmatched lists": the entries of list whose
\* position is not in used, in order
RemoveUsed(list, used) ==
    LET keep == Pick(Len(list), (1 .. Len(list)) \ used)
    IN  Tab([k \in 1 .. Len(keep) |-> list[keep[k]]])

\* the IoU of every unmatched detection with every unmatched tracker's
\* last observation, 0 where the tracker has none
OCRIoU(trks, dets, unmatched_detections, unmatched_trackers) ==
    Tab([p \in (1 .. Len(unmatched_detections)) \X (1 .. Len(unmatched_trackers)) |->
            LET lo == trks[unmatched_trackers[p[2]]].last_observation IN
            IF lo.has /\ lo.det.score >= 0
            THEN iou(dets[unmatched_detections[p[1]]].bbox, lo.det.bbox)
            ELSE 0])

\* max_iou, which starts at 0
MaxIoU(iou_matrix) ==
    IF DOMAIN iou_matrix = {} THEN 0
    ELSE CHOOSE v \in {iou_matrix[p] : p \in DOMAIN iou_matrix} \cup {0} :
            \A p \in DOMAIN iou_matrix : iou_matrix[p] <= v /\ 0 <= v

\* the appearance cost of a pair of the second pass
OCRAppCost(c, trks, dets, sim, d, t) ==
    IF c.use_reid /\ <<d, t>> \in ReidPairs(c, trks, dets)
       /\ SimOf(sim, d, t) >= c.reid_cos_thresh
    THEN FX - ((SimOf(sim, d, t) + FX) \div 2)
    ELSE FX

\* the blend of IoU cost and appearance cost of a pair
OCRBlend(c, iouv, app_cost) ==
    LET w == IF c.use_reid /\ iouv >= c.iou_thresh /\ app_cost < FX
             THEN c.reid_weight ELSE 0
    IN  ((FX - w) * (FX - iouv) + w * app_cost) \div FX

\* the cost matrix of the second pass
OCRCost(c, trks, dets, sim, unmatched_detections, unmatched_trackers, iou_matrix) ==
    Tab([p \in DOMAIN iou_matrix |->
            OCRBlend(c, iou_matrix[p],
                     OCRAppCost(c, trks, dets, sim, unmatched_detections[p[1]],
                                unmatched_trackers[p[2]]))])

\* the three lists the second pass returns
OCRLists(assignment, det_used, unmatched_detections, unmatched_trackers) ==
    LET md == Pick(Len(unmatched_detections), det_used) IN
    [matched |-> Tab([i \in 1 .. Len(md) |->
                        <<unmatched_detections[md[i]],
                          unmatched_trackers[assignment[md[i]]]>>]),
     unmatched_detections |-> RemoveUsed(unmatched_detections, det_used),
     unmatched_trackers |->
         RemoveUsed(unmatched_trackers, {assignment[di] : di \in det_used})]

\* the second pass from the assignment on
OCRAccept(c, iou_matrix, assignment, unmatched_detections, unmatched_trackers) ==
    OCRLists(assignment,
             AcceptedRows(c, iou_matrix, assignment, Len(unmatched_detections)),
             unmatched_detections, unmatched_trackers)

\* the second pass from the IoU matrix on
OCRFromIoU(c, trks, dets, sim, unmatched_detections, unmatched_trackers, iou_matrix) ==
    IF ~c.use_reid /\ MaxIoU(iou_matrix) <= c.iou_thresh
    THEN [matched |-> <<>>,
          unmatched_detections |-> unmatched_detections,
          unmatched_trackers |-> unmatched_trackers]
    ELSE OCRAccept(c, iou_matrix,
                   SolveFrom1(OCRCost(c, trks, dets, sim, unmatched_detections,
                                      unmatched_trackers, iou_matrix),
                              Len(unmatched_detections), Len(unmatched_trackers)),
                   unmatched_detections, unmatched_trackers)

\* OCSort::associateOCR: the second pass, on the detections and trackers
\* the primary pass left unmatched, against the trackers' last observations
associateOCR(c, trks, dets, sim, unmatched_detections, unmatched_trackers) ==
    IF Len(unmatched_detections) = 0 \/ Len(unmatched_trackers) = 0 \/ Len(dets) = 0
    THEN [matched |-> <<>>,
          unmatched_detections |-> unmatched_detections,
          unmatched_trackers |-> unmatched_trackers]
    ELSE OCRFromIoU(c, trks, dets, sim, unmatched_detections, unmatched_trackers,
                    OCRIoU(trks, dets, unmatched_detections, unmatched_trackers))

\* the confirmation test without its "first min_hits frames" clause
ConfirmedNoWarmup(c, t, return_all, frames) ==
    IF return_all THEN t.hits >= c.min_hits ELSE t.hit_streak >= c.min_hits

\* the confirmation test of the emit loop
Confirmed(c, t, return_all, frames) ==
    (IF return_all THEN t.hits >= c.min_hits ELSE t.hit_streak >= c.min_hits)
    \/ frames <= c.min_hits

\* a tracker passes the emit loop
Emitted(c, t, return_all, frames) ==
    Confirmed(c, t, return_all, frames)
    /\ ~(~return_all /\ t.time_since_update >= 1)

\* time_since_update values the decay factor is examined on
MaxTsu == 25

\* the decay factor max(0, 1 - 0.05 * time_since_update), in hundredths
Decay(tsu) == Max2(0, Unit - 5 * tsu)

\* the confidence without the decay
EmitConfidenceFresh(t) ==
    (IF t.last_observation.has THEN t.last_observation.det.score ELSE Unit) * Unit

\* the confidence of an emitted tracker, in ten-thousandths
EmitConfidence(t) ==
    LET base_conf == IF t.last_observation.has THEN t.last_observation.det.score
                     ELSE Unit
    IN  IF t.time_since_update > 0 THEN base_conf * Decay(t.time_since_update)
        ELSE base_conf * Unit

\* the filter state emitted whether or not the tracker was updated
EmitBBoxState(t) == getState(t)

\* the bbox of an emitted tracker
EmitBBox(t) ==
    IF t.last_observation.has /\ t.time_since_update = 0
    THEN t.last_observation.det.bbox
    ELSE getState(t)

\* the retire test with >= in place of >
ExpiredAtMaxAge(c, t) == t.time_since_update >= c.max_age

\* the tracker is dropped by the "remove old trackers" block
Expired(c, t) == t.time_since_update > c.max_age

\* the map returned by update
BuildResult(c, trks, return_all, frames) ==
    LET live == {i \in 1 .. Len(trks) : Emitted(c, trks[i], return_all, frames)}
        ids == {trks[i].track_id : i \in live}
    IN  [id \in ids |->
            LET t == trks[CHOOSE i \in live : trks[i].track_id = id] IN
            [bbox |-> EmitBBox(t), confidence |-> EmitConfidence(t)]]

\* next_id_ read without the increment
SpawnIdSame(first_id, k) == first_id

\* the ids given to the detections that spawn: next_id_++ in list order
SpawnId(first_id, k) == first_id + (k - 1)

-----------------------------------------------------------------------------
(* Inputs of the engine model *)

\* at most MaxDets detections in one frame
MaxDets == 2

\* update is called at most MaxFrames times
MaxFrames == 3

\* the detection box whose left edge is at p: 2 x 2 grid units
DetBox(p) == BoxOf(p, 0, p + 2, 2)

\* the detections a frame is made of: a strong one with a reid vector of
\* good quality, and a weaker one without a vector that overlaps it
\* partly (IoU 1/3)
Detections ==
    {DetectionOf(DetBox(0), 90, TRUE, 60), DetectionOf(DetBox(1), 50, FALSE, 0)}

DetLists == UNION {[1 .. n -> Detections] : n \in 0 .. MaxDets}

\* the warp argument: a null pointer, or a translation by dx grid units
\* (frame_width, frame_height > 0)
NoWarp == [given |-> FALSE, dx |-> 0]
Warps == {NoWarp, [given |-> TRUE, dx |-> 1]}

\* Mat3f::Identity() given as the warp
Identity == [given |-> TRUE, dx |-> 0]

\* the gains updateKF may apply
Gains == {0, 1}

\* the values cosine_sim may take, fixed-point
SimValues == {0, FX}

\* the constructor arguments the model covers (iou_thresh 0.15, delta_t 3,
\* inertia 0.2, reid_weight 0.35, reid_cos_thresh 0.35), with the
\* return_all argument the caller passes at every update call
Configs ==
    {[iou_thresh |-> 45, max_age |-> ma, min_hits |-> mh, delta_t |-> 3,
      inertia |-> InertiaWeight, use_reid |-> ur,
      reid_weight |-> 105, reid_cos_thresh |-> 105, return_all |-> ra] :
        ma \in {0, 1, 2}, mh \in {1, 2}, ur \in BOOLEAN, ra \in BOOLEAN}

-----------------------------------------------------------------------------
(* OCSort::update as one step *)

NoCall == [frame |-> 0]

\* a newly constructed engine: frame_count_ is 0 and nothing was returned
NoFresh == [frame_count |-> 0, result |-> <<>>]

\* no update call was made
NoPrev == [trackers |-> <<>>, next_id |-> 0, finished |-> {}, result |-> <<>>,
           warp |-> NoWarp]

\* the last call was not takeFinishedAppearances
NoTake == [called |-> FALSE, ids |-> {}]

\* a newly constructed engine, whatever its arguments
EngineStart ==
    /\ trackers = <<>>
    /\ next_id = 0
    /\ frame_count = 0
    /\ finished = {}
    /\ result = <<>>
    /\ retired = {}
    /\ last = NoCall
    /\ history = <<>>
    /\ issued = <<>>
    /\ take_out = NoTake
    /\ returned = <<>>
    /\ retired_app = {}
    /\ fresh = NoFresh
    /\ prev = NoPrev

EngineInit ==
    /\ cfg \in Configs
    /\ EngineStart

\* trackers after predict() and, when a warp is given, applyWarp()
Predicted(trks, warp) ==
    Tab([i \in 1 .. Len(trks) |->
        LET p == predict(trks[i]) IN
        IF warp.given THEN applyWarp(p, warp.dx) ELSE p])

\* the trackers of a match list, each updated with its detection
ApplyMatches(trks, dets, matched, gain) ==
    Tab([i \in 1 .. Len(trks) |->
        LET M == {k \in 1 .. Len(matched) : matched[k][2] = i} IN
        IF M = {} THEN trks[i]
        ELSE updateWith(trks[i], dets[matched[CHOOSE k \in M : TRUE][1]], gain[i])])

\* update(std::nullopt) on the trackers left unmatched
ApplyUnmatched(trks, unmatched_trackers) ==
    Tab([i \in 1 .. Len(trks) |->
        IF \E k \in 1 .. Len(unmatched_trackers) : unmatched_trackers[k] = i
        THEN updateNone(trks[i]) ELSE trks[i]])

\* one new tracker per unmatched detection, in list order
Spawned(c, dets, unmatched_detections, first_id) ==
    Tab([k \in 1 .. Len(unmatched_detections) |->
        NewTracker(dets[unmatched_detections[k]], SpawnId(first_id, k), c.delta_t)])

Range(s) == {s[i] : i \in DOMAIN s}

\* the record of one call: what update did, for the properties
CallRecord(trks, frames, dets, return_all, pre, a1, a2, born, gone) ==
    [frame |-> frames + 1,
     dets |-> dets,
     return_all |-> return_all,
     before |-> {trks[i].track_id : i \in 1 .. Len(trks)},
     state |-> [id \in {pre[i].track_id : i \in 1 .. Len(pre)} |->
                  getState(pre[CHOOSE i \in 1 .. Len(pre) : pre[i].track_id = id])],
     primary |-> {<<a1.matched[k][1], pre[a1.matched[k][2]].track_id>> :
                     k \in 1 .. Len(a1.matched)},
     ocr |-> {<<a2.matched[k][1], pre[a2.matched[k][2]].track_id>> :
                 k \in 1 .. Len(a2.matched)},
     n_primary |-> Len(a1.matched),
     n_ocr |-> Len(a2.matched),
     spawned |-> {<<a2.unmatched_detections[k], born[k].track_id>> :
                     k \in 1 .. Len(born)},
     n_spawned |-> Len(born),
     spawned_ids |-> [k \in 1 .. Len(born) |-> born[k].track_id],
     removed |-> {t.track_id : t \in Range(gone)}]

\* the "remove old trackers" block and the emit loop
Retire(c, nid, frames, return_all, born, kept, gone, rec) ==
    [trackers |-> kept,
     next_id |-> nid + Len(born),
     finished |-> {t.track_id : t \in {g \in Range(gone) : g.has_appearance}},
     result |-> BuildResult(c, kept, return_all, frames + 1),
     removed |-> {t.track_id : t \in Range(gone)},
     last |-> rec]

\* nothing is erased
KeptAll(c, all) == all

\* the trackers the retire block keeps
KeptOf(c, all) == LET Kept(t) == ~Expired(c, t) IN SelectSeq(all, Kept)

\* the trackers the retire block erases
GoneOf(c, all) == LET Gone(t) == Expired(c, t) IN SelectSeq(all, Gone)

\* update from the spawn on
AfterSpawn(c, trks, nid, frames, dets, return_all, pre, a1, a2, u3, born) ==
    Retire(c, nid, frames, return_all, born, KeptOf(c, u3 \o born),
           GoneOf(c, u3 \o born),
           CallRecord(trks, frames, dets, return_all, pre, a1, a2, born,
                      GoneOf(c, u3 \o born)))

\* update after the two passes: update(none), spawn, retire and the emitted
\* map
Finish(c, trks, nid, frames, dets, return_all, warp, pre, a1, a2, u2) ==
    AfterSpawn(c, trks, nid, frames, dets, return_all, pre, a1, a2,
               ApplyUnmatched(u2, a2.unmatched_trackers),
               Spawned(c, dets, a2.unmatched_detections, nid))

\* the trackers a match list updates
MatchedTrackers(a) == {a.matched[k][2] : k \in 1 .. Len(a.matched)}

\* an outcome with, in its record, the time_since_update each tracker had
\* when associateOCR was called
AtOCR(o, u1) ==
    [o EXCEPT !.last = ("at_ocr" :> [id \in {u1[i].track_id : i \in 1 .. Len(u1)} |->
                            u1[CHOOSE i \in 1 .. Len(u1) : u1[i].track_id = id]
                                .time_since_update]) @@ o.last]

\* the second pass and what follows it, for every gain of its updates
FromOCR(c, trks, nid, frames, dets, return_all, warp, pre, sim, a1, u1) ==
    UNION {{AtOCR(Finish(c, trks, nid, frames, dets, return_all, warp, pre, a1, a2,
                         ApplyMatches(u1, dets, a2.matched, gain2)), u1) :
                gain2 \in [MatchedTrackers(a2) -> Gains]} :
              a2 \in {associateOCR(c, u1, dets, sim, a1.unmatched_detections,
                                   a1.unmatched_trackers)}}

\* the primary pass and what follows it, for every gain of its updates
FromPrimary(c, trks, nid, frames, dets, return_all, warp, pre, sim) ==
    UNION {UNION {FromOCR(c, trks, nid, frames, dets, return_all, warp, pre, sim,
                          a1, ApplyMatches(pre, dets, a1.matched, gain1)) :
                     gain1 \in [MatchedTrackers(a1) -> Gains]} :
              a1 \in {associate(c, pre, dets, sim)}}

\* predict, warp and what follows, for every similarity of the reid pairs
FromPredict(c, trks, nid, frames, dets, return_all, warp, pre) ==
    UNION {FromPrimary(c, trks, nid, frames, dets, return_all, warp, pre, sim) :
              sim \in [ReidPairs(c, pre, dets) -> SimValues]}

\* every outcome of OCSort::update(dets, return_all, warp) in the state
\* (trks, nid, frames), over the similarities and gains
UpdateOutcomes(c, trks, nid, frames, dets, return_all, warp) ==
    FromPredict(c, trks, nid, frames, dets, return_all, warp, Predicted(trks, warp))

\* history of the calls, per track id known to the last call: the number
\* of consecutive calls that matched no detection to the track, the
\* detection of its last match (a spawn counts as a match), the call it
\* was spawned in, the number of calls that matched it and the length of
\* its last run of consecutive matched calls, and whether a detection
\* matched to it carried a vector of sufficient quality
HistoryAfter(old, l) ==
    LET pairs == l.primary \cup l.ocr \cup l.spawned
        ids == l.before \cup {p[2] : p \in l.spawned}
    IN  [id \in ids |->
            IF \E p \in pairs : p[2] = id
            THEN [missed |-> 0,
                  det |-> l.dets[(CHOOSE p \in pairs : p[2] = id)[1]],
                  sampled |-> \/ id \in l.before /\ old[id].sampled
                              \/ LET d == l.dets[(CHOOSE p \in pairs : p[2] = id)[1]]
                                 IN  d.has_reid /\ d.reid_quality >= kMinReidUpdateQuality,
                  born |-> IF id \in l.before THEN old[id].born ELSE l.frame,
                  matched |-> IF id \in l.before THEN old[id].matched + 1 ELSE 1,
                  run |-> IF id \in l.before /\ old[id].missed = 0
                          THEN old[id].run + 1 ELSE 1]
            ELSE [old[id] EXCEPT !.missed = @ + 1]]

Update(dets, return_all, warp) ==
    /\ frame_count < MaxFrames
    /\ \E o \in UpdateOutcomes(cfg, trackers, next_id, frame_count, dets,
                               return_all, warp) :
        /\ frame_count' = frame_count + 1
        /\ trackers' = o.trackers
        /\ next_id' = o.next_id
        /\ finished' = finished \cup o.finished
        /\ result' = o.result
        /\ retired' = retired \cup o.removed
        /\ last' = o.last
        /\ history' = HistoryAfter(history, o.last)
        /\ issued' = issued \o o.last.spawned_ids
        /\ retired_app' = retired_app \cup
                {id \in o.removed : HistoryAfter(history, o.last)[id].sampled}
        /\ fresh' = [frame_count |-> fresh.frame_count + 1,
                      result |-> BuildResult(cfg, o.trackers, return_all,
                                             fresh.frame_count + 1)]
    /\ take_out' = NoTake
    /\ prev' = [trackers |-> trackers, next_id |-> next_id, finished |-> finished,
                result |-> result, warp |-> warp]
    /\ UNCHANGED <<returned, cfg, hvars, pvars, svars, dvars, ovars>>

\* takeFinishedAppearances returning a copy and leaving the map as it is
takeCopy(f) == [out |-> f, finished |-> f]

\* OCSort::takeFinishedAppearances: the map is swapped into the result
takeSwap(f) == [out |-> f, finished |-> {}]

Take ==
    /\ take_out' = [called |-> TRUE, ids |-> takeSwap(finished).out]
    /\ finished' = takeSwap(finished).finished
    /\ returned' = [id \in DOMAIN returned \cup takeSwap(finished).out |->
                        (IF id \in DOMAIN returned THEN returned[id] ELSE 0)
                        + (IF id \in takeSwap(finished).out THEN 1 ELSE 0)]
    /\ UNCHANGED <<cfg, trackers, next_id, frame_count, result, retired, last,
                   history, issued, retired_app, fresh, prev, hvars, pvars, svars, dvars, ovars>>

\* OCSort::reset: trackers_, next_id_ and finished_appearances_ are
\* cleared, frame_count_ is not assigned. The history restarts with the
\* engine; a new engine given the calls that follow starts from the same
\* trackers_ and next_id_, which is all that update reads besides
\* frame_count_, so it differs from this one in frame_count_ alone.
Reset ==
    /\ trackers' = <<>>
    /\ next_id' = 0
    /\ finished' = {}
    /\ frame_count' = frame_count
    /\ fresh' = NoFresh
    /\ prev' = NoPrev
    /\ retired' = {}
    /\ last' = [frame |-> frame_count]
    /\ history' = <<>>
    /\ issued' = <<>>
    /\ take_out' = NoTake
    /\ returned' = <<>>
    /\ retired_app' = {}
    /\ UNCHANGED <<cfg, result, hvars, pvars, svars, dvars, ovars>>

\* no tracker is driven directly
SIdle ==
    /\ st_trk = <<>>
    /\ test = [phase |-> "idle"]
    /\ bank = <<>>
    /\ fed = <<>>

\* no score matrix is built
OIdle ==
    /\ ocm_in = <<>>
    /\ ocm_out = <<>>

\* no frames are given to process
DIdle ==
    /\ d_pc = "idle"
    /\ d_in = <<>>
    /\ d_i = 0
    /\ detections = {}
    /\ d_calls = <<>>
    /\ prev_ok = FALSE
    /\ d_fed = <<>>

\* a pipeline that is constructed and never run
PIdle ==
    /\ p_pc = "idle"
    /\ scenario = <<>>
    /\ p_i = 0
    /\ track_data = <<>>
    /\ tracklets = <<>>
    /\ appearances = {}
    /\ p_sim = <<>>
    /\ uf_parent = <<>>
    /\ links = {}
    /\ merged_data = <<>>
    /\ tracks = <<>>

HIdle ==
    /\ h_pc = "idle"
    /\ h_cost = [rows |-> 0, cols |-> 0, m |-> <<>>, eps |-> 1]
    /\ h_assignment = <<>>
    /\ h_ret = 0
    /\ h_st = NoWork

Init == EngineInit /\ HIdle /\ PIdle /\ SIdle /\ DIdle /\ OIdle

Next == \E dets \in DetLists, warp \in Warps :
            Update(dets, cfg.return_all, warp)

Spec == Init /\ [][Next]_vars

\* the engines that emit only tracks matched in the frame, from their
\* first match on, and keep an unmatched track for at most one frame
ConfigsF == {c \in Configs : c.min_hits = 1 /\ ~c.return_all /\ c.max_age <= 1}

InitF == Init /\ cfg \in ConfigsF

\* update calls with takeFinishedAppearances calls between them
NextF == Next \/ Take

SpecF == InitF /\ [][NextF]_vars

\* the engines with a warm-up of two frames
ConfigsR == {c \in Configs : c.min_hits = 2 /\ c.max_age = 1}

InitR == Init /\ cfg \in ConfigsR

\* update calls with reset calls between them
NextR == Next \/ Reset

SpecR == InitR /\ [][NextR]_vars

\* the engines that keep an unmatched track for two frames and emit
\* every confirmed track
ConfigsW == {c \in Configs : c.max_age = 2 /\ c.min_hits = 1 /\ c.return_all}

InitW == Init /\ cfg \in ConfigsW

\* update calls without a warp or with the identity as the warp
NextW == \E dets \in DetLists, warp \in {NoWarp, Identity} :
             Update(dets, cfg.return_all, warp)

SpecW == InitW /\ [][NextW]_vars

\* engines whose iou_thresh is either below every IoU of two overlapping
\* boxes of the grid or equal to the IoU of two boxes one unit apart
\* (1/3), without and with appearance
ConfigsG ==
    {[c EXCEPT !.iou_thresh = th] :
        c \in {k \in Configs : k.max_age = 1 /\ k.min_hits = 1 /\ k.return_all},
        th \in {45, FX \div 3}}

InitG ==
    /\ cfg \in ConfigsG
    /\ EngineStart
    /\ HIdle
    /\ PIdle
    /\ SIdle
    /\ DIdle
    /\ OIdle

SpecG == InitG /\ [][Next]_vars

-----------------------------------------------------------------------------
(* One KalmanBoxTracker under any sequence of calls of its public         *)
(* functions: trackers holds it, frame_count counts the calls and last    *)
(* records what the last update(det) read                                 *)

\* the number of calls made on the tracker
MaxCalls == 6

\* KalmanBoxTracker(det, 0, delta_t)
InitK ==
    /\ cfg = CHOOSE c \in Configs : TRUE
    /\ \E det \in Detections, dt \in {1, 3} : trackers = <<NewTracker(det, 0, dt)>>
    /\ next_id = 1
    /\ frame_count = 0
    /\ finished = {}
    /\ result = <<>>
    /\ retired = {}
    /\ last = NoCall
    /\ history = <<>>
    /\ issued = <<>>
    /\ take_out = NoTake
    /\ returned = <<>>
    /\ retired_app = {}
    /\ fresh = NoFresh
    /\ prev = NoPrev
    /\ HIdle
    /\ PIdle
    /\ SIdle
    /\ DIdle
    /\ OIdle

\* one call that leaves the tracker as new_trk
TrackerCall(new_trk, rec) ==
    /\ frame_count < MaxCalls
    /\ frame_count' = frame_count + 1
    /\ trackers' = <<new_trk>>
    /\ last' = rec
    /\ UNCHANGED <<cfg, next_id, finished, result, retired, history, issued,
                   take_out, returned, retired_app, fresh, prev,
                   hvars, pvars, svars, dvars, ovars>>

\* trk.predict()
KPredict == TrackerCall(predict(trackers[1]), [last EXCEPT !.frame = 0])

\* trk.update(det): last records the observation the direction was
\* measured from and what kPreviousObservation(delta_t) returned just
\* before the call
KUpdate ==
    \E det \in Detections, g \in Gains :
        TrackerCall(updateWith(trackers[1], det, g),
                    [frame |-> 1,
                     reference |-> InertiaReference(trackers[1]),
                     k_previous |-> kPreviousObservation(trackers[1],
                                                         trackers[1].delta_t)])

\* trk.update(std::nullopt)
KUpdateNone == TrackerCall(updateNone(trackers[1]), [last EXCEPT !.frame = 0])

\* trk.applyWarp(warp, W, H) with W, H > 0
KWarp ==
    \E dx \in {-1, 1} :
        TrackerCall(applyWarp(trackers[1], dx), [last EXCEPT !.frame = 0])

NextK == KPredict \/ KUpdate \/ KUpdateNone \/ KWarp

SpecK == InitK /\ [][NextK]_vars

-----------------------------------------------------------------------------
(* Harness for solve: a cost matrix is drawn, solve is applied to it *)

\* the cost matrices with at most n rows and n columns
Matrices(n) ==
    UNION {
        {[rows |-> r, cols |-> c, m |-> f, eps |-> e] :
            f \in [(0 .. r - 1) \X (0 .. c - 1) -> CostValues], e \in EpsUnits} :
        r \in 0 .. n, c \in 0 .. n }

\* an engine that is constructed and never called
EngineIdle ==
    /\ cfg = CHOOSE c \in Configs : TRUE
    /\ trackers = <<>>
    /\ next_id = 0
    /\ frame_count = 0
    /\ finished = {}
    /\ result = <<>>
    /\ retired = {}
    /\ last = NoCall
    /\ history = <<>>
    /\ issued = <<>>
    /\ take_out = NoTake
    /\ returned = <<>>
    /\ retired_app = {}
    /\ fresh = NoFresh
    /\ prev = NoPrev

InitH ==
    /\ h_pc = "input"
    /\ h_cost \in Matrices(MaxDim)
    /\ h_assignment = <<>>
    /\ h_ret = 0
    /\ h_st = NoWork
    /\ EngineIdle
    /\ PIdle
    /\ SIdle
    /\ DIdle
    /\ OIdle

HSolve ==
    /\ h_pc = "input"
    /\ LET out == solve(h_cost) IN
        /\ h_assignment' = out.assignment
        /\ h_ret' = out.cost
    /\ h_pc' = "done"
    /\ UNCHANGED <<h_cost, h_st, evars, gvars, pvars, svars, dvars, ovars>>

NextH == HSolve

SpecH == InitH /\ [][NextH]_vars

-----------------------------------------------------------------------------
(* Harness for the steps of solve: a cost matrix of finite doubles is      *)
(* drawn, entries near the ends of the range included, and                 *)
(* assignmentOptimal runs one step function at a time                      *)

\* largest number of rows and of columns of these matrices
MaxCycleDim == 2

\* a double of large magnitude: twice as much is beyond DBL_MAX
BigCost == DBL_MAX - DBL_MAX \div 4

\* the entries of these matrices
CycleValues == {-BigCost, 0, 1, BigCost}

InitC ==
    /\ h_pc = "input"
    /\ h_cost \in UNION {
            {[rows |-> r, cols |-> c, m |-> f, eps |-> 1] :
                f \in [(0 .. r - 1) \X (0 .. c - 1) -> CycleValues]} :
            r \in 1 .. MaxCycleDim, c \in 1 .. MaxCycleDim }
    /\ h_assignment = <<>>
    /\ h_ret = 0
    /\ h_st = NoWork
    /\ EngineIdle
    /\ PIdle
    /\ SIdle
    /\ DIdle
    /\ OIdle

\* the step functions leave everything but the working arrays alone
CycleFrame == UNCHANGED <<h_cost, h_ret, evars, gvars, pvars, svars, dvars, ovars>>

\* assignmentOptimal up to its call of step2b
CStart ==
    /\ h_pc = "input"
    /\ h_st' = [w |-> Preliminary(h_cost.m, h_cost.rows, h_cost.cols, h_cost.eps),
                row |-> -1, col |-> -1]
    /\ h_pc' = "step2b"
    /\ UNCHANGED h_assignment
    /\ CycleFrame

CStep2a ==
    /\ h_pc = "step2a"
    /\ h_st' = [h_st EXCEPT !.w = Cover2a(h_st.w)]
    /\ h_pc' = "step2b"
    /\ UNCHANGED h_assignment
    /\ CycleFrame

\* step2b: the assignment is built when min_dim columns are covered
CStep2b ==
    /\ h_pc = "step2b"
    /\ IF Cardinality({c \in Cols(h_st.w) : h_st.w.ccols[c]}) = h_st.w.min_dim
       THEN /\ h_assignment' = buildAssignmentVector(h_st.w)
            /\ h_pc' = "done"
       ELSE /\ h_pc' = "step3"
            /\ UNCHANGED h_assignment
    /\ UNCHANGED h_st
    /\ CycleFrame

CStep3 ==
    /\ h_pc = "step3"
    /\ \E o \in {Scan3(h_st.w, 0, 0, FALSE)} :
          /\ h_st' = [w |-> o.w, row |-> o.row, col |-> o.col]
          /\ h_pc' = o.to
    /\ UNCHANGED h_assignment
    /\ CycleFrame

CStep4 ==
    /\ h_pc = "step4"
    /\ h_st' = [w |-> Augment4(h_st.w, h_st.row, h_st.col), row |-> -1, col |-> -1]
    /\ h_pc' = "step2a"
    /\ UNCHANGED h_assignment
    /\ CycleFrame

CStep5 ==
    /\ h_pc = "step5"
    /\ h_st' = [h_st EXCEPT !.w = Shift5(h_st.w, MinUncovered(h_st.w))]
    /\ h_pc' = "step3"
    /\ UNCHANGED h_assignment
    /\ CycleFrame

NextC == CStart \/ CStep2a \/ CStep2b \/ CStep3 \/ CStep4 \/ CStep5

\* each step function runs to its end and calls the next one
SpecC == InitC /\ [][NextC]_vars /\ WF_vars(NextC)

-----------------------------------------------------------------------------
(* FacePipeline::process, phase 2 (tracking loop) and phase 3 (offline     *)
(* linking, merge, filter).                                                *)
(*                                                                         *)
(* Pipeline coordinates are twentieths of the frame, confidences are       *)
(* ten-thousandths (as the engine emits them), similarities hundredths.  The engine is the environment of the      *)
(* pipeline: what tracker.update returns in frame i is read off a          *)
(* scenario fixed at the start.                                            *)
(***************************************************************************)

\* the coordinate 1.0
PScale == 2 * 10

\* number of frames of the video (image_paths.size())
MaxPFrames == 22

\* kMinOutputConfidence = 0.05
kMinOutputConfidence == 500

\* the smallest width and height recorded is 0.01 = 1 / kMinBoxSizeInv
kMinBoxSizeInv == 100

\* min_track_frames
min_track_frames == 10

\* kMaxCenterDist = 2.0
kMaxCenterDist == 2

\* kMaxAreaRatio = 4.0
kMaxAreaRatio == 4

\* the constructor and process arguments the model covers: conf_thresh
\* 0.5, reid_cos_thresh 0.35, video_fps 0.5 (link_max_gap_short 1,
\* link_max_gap_long 5), use_reid on
PipelineCfg ==
    [conf_thresh |-> 5000, reid_cos_thresh |-> 35, video_fps10 |-> 5,
     use_reid |-> TRUE]

\* --- the scenario: what the engine emits ---

\* the score of the detection a track was last matched with, in the k-th
\* frame of its life (detector scores are in [0, 1])
ScoreAt(pattern, k) ==
    CASE pattern = "solid"  -> 80
      [] pattern = "every9" -> 50
      [] pattern = "every6" -> 50
      [] pattern = "two"    -> 50
      [] pattern = "tail"   -> 50
      [] pattern = "dip"    -> IF k = 1 THEN 20 ELSE 80
      [] pattern = "fade"   -> 50
      [] pattern = "lost"   -> Unit

\* the frames since the track was last matched, in the k-th frame of its
\* life
TsuAt(pattern, k) ==
    CASE pattern = "solid"  -> 0
      [] pattern = "every9" -> k % 9
      [] pattern = "every6" -> k % 6
      [] pattern = "two"    -> IF k < 2 THEN 0 ELSE k - 1
      [] pattern = "tail"   -> IF k < 6 THEN 0 ELSE k - 5
      [] pattern = "dip"    -> 0
      [] pattern = "fade"   -> IF k < 3 THEN 0 ELSE k - 2
      [] pattern = "lost"   -> k

\* the confidence the engine gives a track in the k-th frame of its life
ConfAt(pattern, k) ==
    EmitConfidence([last_observation |->
                        Some(DetectionOf(Placeholder.bbox, ScoreAt(pattern, k), FALSE, 0)),
                    time_since_update |-> TsuAt(pattern, k)])

\* the bbox the engine gives a track (filter state or last observation:
\* not confined to the frame)
BoxKind(kind) ==
    CASE kind = "mid"    -> BoxOf(6, 6, 10, 10)
      [] kind = "far"    -> BoxOf(14, 6, 18, 10)
      [] kind = "edge"   -> BoxOf(-2, 6, 3, 10)
      [] kind = "big"    -> BoxOf(0, 0, 18, 18)
      [] kind = "corner" -> BoxOf(18, 18, 20, 20)
      [] kind = "thin"   -> BoxOf(6, 6, 6, 10)
      [] kind = "off"    -> BoxOf(24, 6, 28, 10)

PlanOf(start, len, pattern, kind) ==
    [start |-> start, len |-> len, pattern |-> pattern, kind |-> kind]

NoPlan == PlanOf(0, 0, "solid", "mid")

\* the lives the three track ids may have: the frame they spawn in, the
\* number of frames they are emitted for, their confidences and their bbox
Plans0 ==
    {PlanOf(0, 22, "every9", "mid"), PlanOf(0, 22, "every6", "edge"),
     PlanOf(0, 22, "tail", "mid"), PlanOf(0, 6, "solid", "mid"),
     PlanOf(0, 12, "two", "mid"), PlanOf(0, 22, "fade", "mid"),
     PlanOf(0, 22, "lost", "mid")}
Plans1 ==
    {NoPlan, PlanOf(14, 8, "solid", "mid"), PlanOf(15, 7, "dip", "far"),
     PlanOf(15, 7, "solid", "big"), PlanOf(15, 7, "solid", "corner"),
     PlanOf(15, 4, "solid", "mid"), PlanOf(14, 8, "solid", "thin"),
     PlanOf(14, 3, "solid", "mid")}
Plans2 ==
    {NoPlan, PlanOf(16, 6, "solid", "mid"), PlanOf(15, 7, "solid", "far"),
     PlanOf(14, 8, "solid", "off"), PlanOf(14, 8, "dip", "mid"),
     PlanOf(17, 5, "solid", "mid"), PlanOf(10, 12, "solid", "mid")}

Scenarios == Plans0 \X Plans1 \X Plans2

\* the map tracker.update returns in frame i (0-based): id -> TrackResult
ActiveTracks(sc, i) ==
    LET alive == {id \in 0 .. 2 :
                     sc[id + 1].start <= i /\ i < sc[id + 1].start + sc[id + 1].len}
    IN  [id \in alive |->
            [bbox |-> BoxKind(sc[id + 1].kind),
             confidence |-> ConfAt(sc[id + 1].pattern, i - sc[id + 1].start)]]

\* --- phase 2: the tracking loop ---

clamp01(v) == Max2(0, Min2(PScale, v))

\* the bbox recorded as the engine gave it
clampNone(b) == b

\* clampBBox01
clampBBox01(b) == BoxOf(clamp01(b.x1), clamp01(b.y1), clamp01(b.x2), clamp01(b.y2))

TrackFrameOf(frame_index, bbox, confidence) ==
    [frame_index |-> frame_index, bbox |-> bbox, confidence |-> confidence]

\* only the entries of degenerate bboxes are skipped
SkipEntryDegenerate(bbox, confidence) ==
    \/ width(bbox) * kMinBoxSizeInv < PScale
    \/ height(bbox) * kMinBoxSizeInv < PScale

\* the entry of one emitted track is skipped: degenerate bbox or
\* ultra-low confidence
SkipEntry(bbox, confidence) ==
    \/ width(bbox) * kMinBoxSizeInv < PScale
    \/ height(bbox) * kMinBoxSizeInv < PScale
    \/ confidence < kMinOutputConfidence

\* the entries frame i adds: id -> TrackFrame
FrameEntries(i, active_tracks) ==
    LET kept == {id \in DOMAIN active_tracks :
                    ~SkipEntry(clampBBox01(active_tracks[id].bbox),
                               active_tracks[id].confidence)}
    IN  [id \in kept |->
            TrackFrameOf(i, clampBBox01(active_tracks[id].bbox),
                         active_tracks[id].confidence)]

\* track_data after the entries of one frame are pushed
PushEntries(data, entries) ==
    [id \in DOMAIN data \cup DOMAIN entries |->
        IF id \in DOMAIN entries
        THEN (IF id \in DOMAIN data THEN data[id] ELSE <<>>) \o <<entries[id]>>
        ELSE data[id]]

\* --- phase 3: tracklet summaries ---

\* span_conf = max(0.20, conf_thresh * 0.60)
SpanConf(pc) == Max2(2000, (pc.conf_thresh * 60) \div 100)

\* the positions of frames whose confidence reaches span_conf
SpanPositions(pc, frames) ==
    {k \in 1 .. Len(frames) : frames[k].confidence >= SpanConf(pc)}

\* first: the low-confidence head trimmed, the raw endpoint when nothing
\* is left
SpanFirst(frames, inside) ==
    IF inside = {} THEN 1 ELSE CHOOSE k \in inside : \A m \in inside : k <= m

\* last: the low-confidence tail trimmed, the raw endpoint when nothing
\* is left
SpanLast(frames, inside) ==
    IF inside = {} THEN Len(frames) ELSE CHOOSE k \in inside : \A m \in inside : m <= k

\* TrackletSummary of one id
Summarize(pc, id, frames, first_pos, last_pos) ==
    [id |-> id,
     start_frame |-> frames[first_pos].frame_index,
     end_frame |-> frames[last_pos].frame_index,
     start_bbox |-> frames[first_pos].bbox,
     end_bbox |-> frames[last_pos].bbox,
     frame_count |-> Len(frames),
     conf_ge_thresh |->
         Cardinality({k \in 1 .. Len(frames) : frames[k].confidence >= pc.conf_thresh})]

\* the ids of a map in ascending order (std::map iteration)
RECURSIVE KeysAscending(_)
KeysAscending(S) ==
    IF S = {} THEN <<>> ELSE <<SetMin(S)>> \o KeysAscending(S \ {SetMin(S)})

\* the summaries of all ids of track_data, in ascending id order
TrackletsOf(pc, data, ids) ==
    [n \in 1 .. Len(ids) |->
        Summarize(pc, ids[n], data[ids[n]],
                  SpanFirst(data[ids[n]], SpanPositions(pc, data[ids[n]])),
                  SpanLast(data[ids[n]], SpanPositions(pc, data[ids[n]])))]

\* --- phase 3: offline linking ---

\* link_max_gap_short = max(1, round(video_fps * 2))
LinkMaxGapShort(pc) == Max2(1, (pc.video_fps10 * 2 + 5) \div 10)

\* link_max_gap_long = max(link_max_gap_short, round(video_fps * 10))
LinkMaxGapLong(pc) == Max2(LinkMaxGapShort(pc), (pc.video_fps10 * 10 + 5) \div 10)

\* bbox_diag squared
DiagSq(b) == Max2(0, width(b)) * Max2(0, width(b)) + Max2(0, height(b)) * Max2(0, height(b))

\* center_dist_norm_max_diag squared, as the fraction num / den (both
\* times 4: the centers are kept doubled)
CenterDistSq(a, b) ==
    [num |-> ((a.x1 + a.x2) - (b.x1 + b.x2)) * ((a.x1 + a.x2) - (b.x1 + b.x2))
             + ((a.y1 + a.y2) - (b.y1 + b.y2)) * ((a.y1 + a.y2) - (b.y1 + b.y2)),
     den |-> 4 * Max2(DiagSq(a), DiagSq(b))]

\* dist <= kMaxCenterDist
DistOk(d) == d.num <= kMaxCenterDist * kMaxCenterDist * d.den

\* dist1 < dist2
DistLess(d1, d2) == d1.num * d2.den < d2.num * d1.den

\* ar <= kMaxAreaRatio, ar the larger of aB / aA and its inverse
AreaRatioOk(aA, aB) == Max2(aA, aB) <= kMaxAreaRatio * Min2(aA, aB)

\* cosine_sim of the appearances of two ids: the value the scenario
\* fixes for the pair
PairSim(sim, idA, idB) == sim[{idA, idB}]

\* the similarity gate with the long-gap floor left out
SimGateShortOnly(pc, A, B, gap, s) == s >= pc.reid_cos_thresh

\* the appearance gate of a pair at a gap: the threshold, and for long
\* gaps the confident-frame counts and the 0.50 floor
SimGate(pc, A, B, gap, s) ==
    IF gap > LinkMaxGapShort(pc)
    THEN A.conf_ge_thresh >= 6 /\ B.conf_ge_thresh >= 6
         /\ s >= Max2(pc.reid_cos_thresh, 50)
    ELSE s >= pc.reid_cos_thresh

\* the candidate test without the two tests on the order in time
CandidateAnyOrder(pc, trk, apps, sim, i, j) ==
    /\ trk[i].id \in apps
    /\ i # j
    /\ trk[j].start_frame - trk[i].end_frame <= LinkMaxGapLong(pc)
    /\ trk[j].id \in apps
    /\ DistOk(CenterDistSq(trk[i].end_bbox, trk[j].start_bbox))
    /\ AreaRatioOk(area(trk[i].end_bbox), area(trk[j].start_bbox))
    /\ SimGate(pc, trk[i], trk[j], trk[j].start_frame - trk[i].end_frame,
               PairSim(sim, trk[i].id, trk[j].id))

\* tracklet j is a candidate successor of tracklet i: every "continue"
\* of the inner loop is passed
Candidate(pc, trk, apps, sim, i, j) ==
    /\ trk[i].id \in apps
    /\ i # j
    /\ trk[j].start_frame > trk[i].end_frame
    /\ trk[j].start_frame - trk[i].end_frame <= LinkMaxGapLong(pc)
    /\ trk[j].id \in apps
    /\ DistOk(CenterDistSq(trk[i].end_bbox, trk[j].start_bbox))
    /\ AreaRatioOk(area(trk[i].end_bbox), area(trk[j].start_bbox))
    /\ SimGate(pc, trk[i], trk[j], trk[j].start_frame - trk[i].end_frame,
               PairSim(sim, trk[i].id, trk[j].id))

\* candidate pair p replaces the best pair q kept so far: higher
\* similarity, or the same similarity at a smaller distance
Beats(trk, sim, p, q) ==
    \/ PairSim(sim, trk[p[1]].id, trk[p[2]].id) > PairSim(sim, trk[q[1]].id, trk[q[2]].id)
    \/ /\ PairSim(sim, trk[p[1]].id, trk[p[2]].id) = PairSim(sim, trk[q[1]].id, trk[q[2]].id)
       /\ DistLess(CenterDistSq(trk[p[1]].end_bbox, trk[p[2]].start_bbox),
                   CenterDistSq(trk[q[1]].end_bbox, trk[q[2]].start_bbox))

\* best_to[i]: the candidate no other candidate of i beats, the first
\* such in loop order; 0 for none
BestTo(trk, sim, cands, i) ==
    LET J == {j \in 1 .. Len(trk) : <<i, j>> \in cands}
        top == {j \in J : \A m \in J : ~Beats(trk, sim, <<i, m>>, <<i, j>>)}
    IN  IF J = {} THEN 0 ELSE SetMin(top)

\* best_from[j]: the predecessor no other one beats, the first such in
\* loop order; 0 for none
BestFrom(trk, sim, cands, j) ==
    LET I == {i \in 1 .. Len(trk) : <<i, j>> \in cands}
        top == {i \in I : \A m \in I : ~Beats(trk, sim, <<m, j>>, <<i, j>>)}
    IN  IF I = {} THEN 0 ELSE SetMin(top)

\* parent[x] = r on the way back from find
ufCompress(found, x) ==
    [root |-> found.root, parent |-> [found.parent EXCEPT ![x] = found.root]]

\* UnionFind::find with its path compression: the root and the parent map
RECURSIVE ufFind(_, _)
ufFind(parent, x) ==
    IF x \notin DOMAIN parent THEN [root |-> x, parent |-> parent @@ (x :> x)]
    ELSE IF parent[x] = x THEN [root |-> x, parent |-> parent]
    ELSE ufCompress(ufFind(parent, parent[x]), x)

\* the root of x
ufRoot(parent, x) == ufFind(parent, x).root

\* UnionFind::unite on the two find results: the smaller root is kept
ufJoin(fa, fb) ==
    IF fa.root = fb.root THEN fb.parent
    ELSE IF fa.root < fb.root THEN [fb.parent EXCEPT ![fb.root] = fa.root]
    ELSE [fb.parent EXCEPT ![fa.root] = fb.root]

ufSecond(fa, b) == ufJoin(fa, ufFind(fa.parent, b))

\* unite keeping the largest id as the representative
ufUniteLargest(parent, a, b) ==
    LET fa == ufFind(parent, a)
        fb == ufFind(fa.parent, b)
    IN  IF fa.root = fb.root THEN fb.parent
        ELSE IF fa.root < fb.root THEN [fb.parent EXCEPT ![fa.root] = fb.root]
        ELSE [fb.parent EXCEPT ![fb.root] = fa.root]

\* UnionFind::unite
ufUnite(parent, a, b) == ufSecond(ufFind(parent, a), b)

\* the second loop of the linking block from tracklet i on: a pair of
\* mutual nearest neighbours in different sets is united
RECURSIVE UniteFrom(_, _, _, _, _)
UniteFrom(trk, best_to, best_from, st, i) ==
    IF i > Len(trk) THEN st
    ELSE IF best_to[i] = 0 \/ best_from[best_to[i]] # i
    THEN UniteFrom(trk, best_to, best_from, st, i + 1)
    ELSE IF ufRoot(st.parent, trk[i].id) = ufRoot(st.parent, trk[best_to[i]].id)
    THEN UniteFrom(trk, best_to, best_from, st, i + 1)
    ELSE UniteFrom(trk, best_to, best_from,
                   [parent |-> ufUnite(st.parent, trk[i].id, trk[best_to[i]].id),
                    links |-> st.links \cup {<<i, best_to[i]>>}],
                   i + 1)

\* the linking block on the candidate pairs
LinkWith(trk, sim, cands, parent0) ==
    UniteFrom(trk,
              [i \in 1 .. Len(trk) |-> BestTo(trk, sim, cands, i)],
              [j \in 1 .. Len(trk) |-> BestFrom(trk, sim, cands, j)],
              [parent |-> parent0, links |-> {}], 1)

\* uf after "the linking block": parent[id] = id for every tracklet, then
\* the links when appearances are in use and there are two tracklets
LinkTracklets(pc, trk, apps, sim) ==
    IF pc.use_reid /\ apps # {} /\ Len(trk) >= 2
    THEN LinkWith(trk, sim,
                  {p \in (1 .. Len(trk)) \X (1 .. Len(trk)) :
                      Candidate(pc, trk, apps, sim, p[1], p[2])},
                  [id \in {trk[n].id : n \in 1 .. Len(trk)} |-> id])
    ELSE [parent |-> [id \in {trk[n].id : n \in 1 .. Len(trk)} |-> id],
          links |-> {}]

\* --- phase 3: merge, deduplicate, filter ---

\* the frames of the ids in list order, each tagged with its id
RECURSIVE Concat(_, _)
Concat(data, ids) ==
    IF ids = <<>> THEN <<>>
    ELSE [k \in 1 .. Len(data[Head(ids)]) |->
             [f |-> data[Head(ids)][k], src |-> Head(ids)]]
         \o Concat(data, Tail(ids))

\* std::sort by frame_index: entries of the same frame come out in an
\* order the library chooses, here the order prio gives their ids
SortFrames(tagged, prio) ==
    LET Less(a, b) == \/ a.f.frame_index < b.f.frame_index
                      \/ /\ a.f.frame_index = b.f.frame_index
                         /\ prio[a.src] < prio[b.src]
    IN  SortSeq(tagged, Less)

\* an entry of a frame already present is always dropped
DedupKeepFirst(dedup, e) ==
    IF dedup = <<>> \/ dedup[Len(dedup)].frame_index # e.frame_index
    THEN Append(dedup, e)
    ELSE dedup

\* one step of the dedup loop
DedupStep(dedup, e) ==
    IF dedup = <<>> \/ dedup[Len(dedup)].frame_index # e.frame_index
    THEN Append(dedup, e)
    ELSE IF e.confidence > dedup[Len(dedup)].confidence
    THEN [dedup EXCEPT ![Len(dedup)] = e]
    ELSE dedup

\* the dedup loop over the sorted frames from position k on
RECURSIVE Dedup(_, _, _)
Dedup(sorted, dedup, k) ==
    IF k > Len(sorted) THEN dedup
    ELSE Dedup(sorted, DedupStep(dedup, sorted[k].f), k + 1)

\* merged_data: root -> the sorted, deduplicated frames of its ids
MergeTracks(data, parent, prio) ==
    LET roots == {ufRoot(parent, id) : id \in DOMAIN data}
    IN  [r \in roots |->
            Dedup(SortFrames(Concat(data,
                                    KeysAscending({id \in DOMAIN data :
                                                      ufRoot(parent, id) = r})),
                             prio),
                  <<>>, 1)]

\* the test on the number of confident frames left out of the filter
DroppedNoCount(pc, frames, ge) ==
    \/ Len(frames) < min_track_frames
    \/ ge * 100 < 15 * Len(frames)

\* a merged track is dropped: too short, ge < 3, or frac_ge < 0.15
Dropped(pc, frames, ge) ==
    \/ Len(frames) < min_track_frames
    \/ ge < 3
    \/ ge * 100 < 15 * Len(frames)

\* ge: the frames with confidence >= conf_thresh
ConfidentFrames(pc, frames) ==
    Cardinality({k \in 1 .. Len(frames) : frames[k].confidence >= pc.conf_thresh})

\* result.tracks: the merged tracks that pass the filter, sorted by id
FilterTracks(pc, merged, ids) ==
    LET Passes(id) == ~Dropped(pc, merged[id], ConfidentFrames(pc, merged[id]))
        kept == SelectSeq(ids, Passes)
    IN  [n \in 1 .. Len(kept) |-> [id |-> kept[n], frames |-> merged[kept[n]]]]

\* --- process as steps ---

\* the state at the start of the tracking loop
InitP ==
    /\ p_pc = "track"
    /\ scenario \in Scenarios
    /\ p_i = 0
    /\ track_data = <<>>
    /\ tracklets = <<>>
    /\ appearances = {}
    /\ p_sim = <<>>
    /\ uf_parent = <<>>
    /\ links = {}
    /\ merged_data = <<>>
    /\ tracks = <<>>
    /\ EngineIdle
    /\ HIdle
    /\ SIdle
    /\ DIdle
    /\ OIdle

\* one iteration of the tracking loop
TrackFrame ==
    /\ p_pc = "track"
    /\ p_i < MaxPFrames
    /\ track_data' = PushEntries(track_data, FrameEntries(p_i, ActiveTracks(scenario, p_i)))
    /\ p_i' = p_i + 1
    /\ p_pc' = IF p_i + 1 = MaxPFrames THEN "link" ELSE "track"
    /\ UNCHANGED <<scenario, tracklets, appearances, p_sim, uf_parent, links,
                   merged_data, tracks, hvars, evars, gvars, svars, dvars, ovars>>

\* the sets of ids that may have a published appearance
AppearanceSets == {{}, {0, 1}, {1, 2}, {0, 1, 2}}

\* the values cosine_sim takes on the appearances of two tracklets
LinkSimValues == {30, 40, 60}

\* the appearances are collected, the tracklets summarised and linked
LinkStep ==
    /\ p_pc = "link"
    /\ \E apps \in AppearanceSets,
          sim \in [{{a, b} : a, b \in 0 .. 2} \ {{0}, {1}, {2}} -> LinkSimValues] :
        \E trk \in {TrackletsOf(PipelineCfg, track_data,
                                KeysAscending(DOMAIN track_data))} :
        \E out \in {LinkTracklets(PipelineCfg, trk, apps, sim)} :
            /\ appearances' = apps
            /\ p_sim' = sim
            /\ tracklets' = trk
            /\ uf_parent' = out.parent
            /\ links' = out.links
    /\ p_pc' = "merge"
    /\ UNCHANGED <<scenario, p_i, track_data, merged_data, tracks,
                   hvars, evars, gvars, svars, dvars, ovars>>

\* track_data is merged by root, sorted and deduplicated
MergeStep ==
    /\ p_pc = "merge"
    /\ \E prio \in Permutations(0 .. 2) :
          merged_data' = MergeTracks(track_data, uf_parent, prio)
    /\ p_pc' = "filter"
    /\ UNCHANGED <<scenario, p_i, track_data, tracklets, appearances, p_sim,
                   uf_parent, links, tracks, hvars, evars, gvars, svars, dvars, ovars>>

\* the tracks are filtered and sorted
FilterStep ==
    /\ p_pc = "filter"
    /\ tracks' = FilterTracks(PipelineCfg, merged_data,
                              KeysAscending(DOMAIN merged_data))
    /\ p_pc' = "done"
    /\ UNCHANGED <<scenario, p_i, track_data, tracklets, appearances, p_sim,
                   uf_parent, links, merged_data, hvars, evars, gvars, svars, dvars, ovars>>

NextP == TrackFrame \/ LinkStep \/ MergeStep \/ FilterStep

SpecP == InitP /\ [][NextP]_vars

-----------------------------------------------------------------------------
(* The disjoint-set structure under any sequence of unite and find calls, *)
(* and the merge by representative that follows                           *)

\* the number of tracklet ids
MaxUf == 4

\* the number of unite calls
MaxUnites == 3

UfIds == 0 .. MaxUf - 1

\* uf.parent[s.id] = s.id for every tracklet; every id has one frame, the
\* frame of its own number
InitU ==
    /\ p_pc = "unite"
    /\ uf_parent = [id \in UfIds |-> id]
    /\ links = {}
    /\ track_data = [id \in UfIds |->
                        <<TrackFrameOf(id, BoxKind("mid"), PipelineCfg.conf_thresh)>>]
    /\ merged_data = <<>>
    /\ scenario = <<>>
    /\ p_i = 0
    /\ tracklets = <<>>
    /\ appearances = {}
    /\ p_sim = <<>>
    /\ tracks = <<>>
    /\ EngineIdle
    /\ HIdle
    /\ SIdle
    /\ DIdle
    /\ OIdle

\* uf.unite(a, b); links records the pair of ids
UfUnite ==
    /\ p_pc = "unite"
    /\ Cardinality(links) < MaxUnites
    /\ \E a, b \in UfIds :
        /\ <<a, b>> \notin links
        /\ uf_parent' = ufUnite(uf_parent, a, b)
        /\ links' = links \cup {<<a, b>>}
    /\ UNCHANGED <<p_pc, scenario, p_i, track_data, tracklets, appearances, p_sim,
                   merged_data, tracks, hvars, evars, gvars, svars, dvars, ovars>>

\* uf.find(x), which compresses the path of x
UfFind ==
    /\ p_pc = "unite"
    /\ \E x \in UfIds : uf_parent' = ufFind(uf_parent, x).parent
    /\ UNCHANGED <<p_pc, scenario, p_i, track_data, tracklets, appearances, p_sim,
                   links, merged_data, tracks, hvars, evars, gvars, svars, dvars, ovars>>

\* "Merge track data by union-find representative", sort and deduplicate
UfMerge ==
    /\ p_pc = "unite"
    /\ merged_data' = MergeTracks(track_data, uf_parent, [id \in UfIds |-> id])
    /\ p_pc' = "merged"
    /\ UNCHANGED <<scenario, p_i, track_data, tracklets, appearances, p_sim,
                   uf_parent, links, tracks, hvars, evars, gvars, svars, dvars, ovars>>

NextU == UfUnite \/ UfFind \/ UfMerge

SpecU == InitU /\ [][NextU]_vars

-----------------------------------------------------------------------------
(* KalmanBoxTracker: the filter in numbers, and the ORU self-test          *)
(*                                                                         *)
(* F, H, Q, R and the initial P couple the center x with its velocity vx   *)
(* only, so the (x, vx) block of the filter is a filter of its own: state  *)
(* (x, vx), covariance (p00, p01, p11), measurement noise R(0,0) = 1.      *)
(* Positions and velocities are millionths of the frame, covariances are   *)
(* ten-thousandths; products are divided exactly, rounded towards zero.    *)
(***************************************************************************)

\* the covariance 1.0
CovScale == 100 * 100

\* a * b = q * c + r from the same for a * (b \div 2)
MulDivStep(h, a, odd, c) ==
    IF odd
    THEN [q |-> 2 * h.q + (2 * h.r) \div c + a \div c + (((2 * h.r) % c) + (a % c)) \div c,
          r |-> (((2 * h.r) % c) + (a % c)) % c]
    ELSE [q |-> 2 * h.q + (2 * h.r) \div c, r |-> (2 * h.r) % c]

\* quotient and remainder of a * b by c, for a, b >= 0 and c > 0
RECURSIVE MulDivQR(_, _, _)
MulDivQR(a, b, c) ==
    IF b = 0 THEN [q |-> 0, r |-> 0]
    ELSE MulDivStep(MulDivQR(a, b \div 2, c), a, b % 2 = 1, c)

\* a * b / c, rounded towards zero
MulDiv(a, b, c) == Sign(a) * Sign(b) * MulDivQR(Abs(a), Abs(b), c).q

\* x_ and P_ of a new tracker: P = diag(10, ..., 10000, ...); with them,
\* the number of predictKF steps and the measurements of the updateKF steps
\* that made them
kfInit(cx) ==
    [x |-> cx, vx |-> 0, p00 |-> 10 * CovScale, p01 |-> 0, p11 |-> 10000 * CovScale,
     predicts |-> 0, zs |-> <<>>]

\* the prediction with the position left where it is
predictKFStill(s) ==
    [x |-> s.x, vx |-> s.vx,
     p00 |-> s.p00 + 2 * s.p01 + s.p11 + CovScale,
     p01 |-> s.p01 + s.p11,
     p11 |-> s.p11 + CovScale \div 100,
     predicts |-> s.predicts + 1, zs |-> s.zs]

\* predictKF on the block: x = F x, P = F P F' + Q with Q(0,0) = 1 and
\* Q(4,4) = 0.01
predictKFx(s) ==
    [x |-> s.x + s.vx, vx |-> s.vx,
     p00 |-> s.p00 + 2 * s.p01 + s.p11 + CovScale,
     p01 |-> s.p01 + s.p11,
     p11 |-> s.p11 + CovScale \div 100,
     predicts |-> s.predicts + 1, zs |-> s.zs]

\* updateKF on the block: y = z - x, S = p00 + R, K = (p00, p01) / S,
\* x = x + K y, P = (I - K H) P
updateKFx(s, z) ==
    [x |-> s.x + MulDiv(s.p00, z - s.x, s.p00 + CovScale),
     vx |-> s.vx + MulDiv(s.p01, z - s.x, s.p00 + CovScale),
     p00 |-> s.p00 - MulDiv(s.p00, s.p00, s.p00 + CovScale),
     p01 |-> s.p01 - MulDiv(s.p00, s.p01, s.p00 + CovScale),
     p11 |-> s.p11 - MulDiv(s.p01, s.p01, s.p00 + CovScale),
     predicts |-> s.predicts, zs |-> Append(s.zs, z)]

\* an entry of oru_history_
Observed(z) == [has |-> TRUE, z |-> z]
Unobserved == [has |-> FALSE]

\* the positions of the real observations in oru_history_
ObservedAt(hist) == {i \in 1 .. Len(hist) : hist[i].has}

\* idx2: the last real observation
OruIdx2(hist) ==
    IF ObservedAt(hist) = {} THEN 0
    ELSE CHOOSE i \in ObservedAt(hist) : \A j \in ObservedAt(hist) : j <= i

\* idx1: the real observation before idx2
OruIdx1(hist) ==
    IF ObservedAt(hist) \ {OruIdx2(hist)} = {} THEN 0
    ELSE CHOOSE i \in ObservedAt(hist) \ {OruIdx2(hist)} :
            \A j \in ObservedAt(hist) \ {OruIdx2(hist)} : j <= i

\* gap = idx2 - idx1, 0 when there are no two observations
OruGap(hist) ==
    IF OruIdx1(hist) = 0 \/ OruIdx2(hist) = 0 THEN 0
    ELSE OruIdx2(hist) - OruIdx1(hist)

\* the virtual trajectory from step i on: predict, correct with the
\* interpolated observation; after step gap - 1, predict to the current
\* frame
RECURSIVE oruReplay(_, _, _, _, _)
oruReplay(s, x1, x2, gap, i) ==
    IF i > gap - 1 THEN predictKFx(s)
    ELSE oruReplay(updateKFx(predictKFx(s), x1 + (i * (x2 - x1)) \div gap),
                   x1, x2, gap, i + 1)

\* the replay without the rollback to the snapshot
maybeRunORUInPlace(saved, cur, hist, gap) ==
    IF gap < 2 THEN cur
    ELSE oruReplay(cur, hist[OruIdx1(hist)].z, hist[OruIdx2(hist)].z, gap, 1)

\* maybeRunORU: the filter state the real update is applied to
maybeRunORU(saved, cur, hist, gap) ==
    IF gap < 2 THEN cur
    ELSE oruReplay(saved, hist[OruIdx1(hist)].z, hist[OruIdx2(hist)].z, gap, 1)

\* a tracker made from a detection centered at cx
NewKalman(cx) ==
    [kf |-> kfInit(cx), oru_history |-> <<Observed(cx)>>, oru_observed |-> TRUE,
     oru_saved |-> kfInit(cx), age |-> 0, time_since_update |-> 0]

\* KalmanBoxTracker::predict
kalmanPredict(t) ==
    [t EXCEPT !.kf = predictKFx(@), !.age = @ + 1, !.time_since_update = @ + 1]

\* KalmanBoxTracker::update(std::nullopt)
kalmanMiss(t) ==
    [t EXCEPT !.oru_history = Append(@, Unobserved), !.oru_observed = FALSE]

\* update from the filter state after the real updateKF
kalmanObserved(t, hist, kf) ==
    [t EXCEPT !.kf = kf, !.oru_history = hist, !.oru_saved = kf,
              !.oru_observed = TRUE, !.time_since_update = 0]

\* update with the appended history: ORU when the track was unobserved,
\* then the real updateKF
kalmanUpdateWith(t, hist, cx) ==
    kalmanObserved(t, hist,
        updateKFx(IF t.oru_observed THEN t.kf
                  ELSE maybeRunORU(t.oru_saved, t.kf, hist, OruGap(hist)), cx))

\* KalmanBoxTracker::update(det), det centered at cx
kalmanUpdate(t, cx) == kalmanUpdateWith(t, Append(t.oru_history, Observed(cx)), cx)

\* --- RunOcsortSelfTest as steps ---

\* the center of the re-observation, and the length of the occlusion
ReobsCenters == {800000, 600000, 350000, 100000}
\* the longest occlusion
MaxOcclusion == 7

Occlusions == {0, 1, 2, 5, MaxOcclusion}

InitT ==
    /\ st_trk = NewKalman(200000)
    /\ test \in {[phase |-> "predict", f |-> 1, reobs |-> c, occl |-> o,
                  cx8 |-> 0, cx9 |-> 0, oru_gap |-> 0, z |-> 0,
                  pre |-> <<>>, post |-> <<>>] :
                    c \in ReobsCenters, o \in Occlusions}
    /\ bank = <<>>
    /\ fed = <<>>
    /\ EngineIdle
    /\ HIdle
    /\ PIdle
    /\ DIdle
    /\ OIdle

\* (void)trk.predict(), and the last predict of the test
TestPredict ==
    /\ test.phase = "predict"
    /\ test.f <= test.occl + 4
    /\ st_trk' = kalmanPredict(st_trk)
    /\ test' = IF test.f = test.occl + 4
               THEN [test EXCEPT !.phase = "done", !.cx9 = kalmanPredict(st_trk).kf.x]
               ELSE [test EXCEPT !.phase = "update"]
    /\ UNCHANGED <<bank, fed, hvars, evars, gvars, pvars, dvars, ovars>>

\* trk.update(make_det(cx, ...)) in frames 1 and 2 and in the frame of the
\* re-observation
TestObserve ==
    /\ test.phase = "update"
    /\ test.f <= 2 \/ test.f = test.occl + 3
    /\ \E cx \in {IF test.f <= 2 THEN 200000 + 50000 * test.f ELSE test.reobs} :
        /\ st_trk' = kalmanUpdate(st_trk, cx)
        /\ test' = [test EXCEPT !.phase = "predict", !.f = @ + 1,
                                !.cx8 = kalmanUpdate(st_trk, cx).kf.x,
                                !.z = cx, !.pre = st_trk,
                                !.post = kalmanUpdate(st_trk, cx),
                                !.oru_gap = IF st_trk.oru_observed THEN 0
                                            ELSE OruGap(Append(st_trk.oru_history,
                                                               Observed(cx)))]
    /\ UNCHANGED <<bank, fed, hvars, evars, gvars, pvars, dvars, ovars>>

\* trk.update(std::nullopt) in the frames of the occlusion
TestMiss ==
    /\ test.phase = "update"
    /\ 2 < test.f /\ test.f <= test.occl + 2
    /\ st_trk' = kalmanMiss(st_trk)
    /\ test' = [test EXCEPT !.phase = "predict", !.f = @ + 1]
    /\ UNCHANGED <<bank, fed, hvars, evars, gvars, pvars, dvars, ovars>>

NextT == TestPredict \/ TestObserve \/ TestMiss

SpecT == InitT /\ [][NextT]_vars

-----------------------------------------------------------------------------
(* The appearance bank of one KalmanBoxTracker. A sample is the position, *)
(* in the sequence of observations fed to the tracker, of the detection   *)
(* its vector was copied from; qualities are in hundredths.               *)

kAppearanceBankK == 5
MaxFed == 7

\* the observations fed to the tracker: with a vector and a quality below,
\* at or above kMinReidUpdateQuality, or without a vector
BankInputs ==
    {[has_reid |-> TRUE, reid_quality |-> q] : q \in {-10, 30, 40, 60, 90}}
        \cup {[has_reid |-> FALSE, reid_quality |-> 90]}

\* the bank after the constructor: seeded with the first detection's sample
\* when it has a vector of sufficient quality
bankNew(det) ==
    IF det.has_reid /\ det.reid_quality >= kMinReidUpdateQuality
    THEN [slots |-> <<[q |-> Max2(0, det.reid_quality), src |-> 1]>>,
          has_appearance |-> TRUE]
    ELSE [slots |-> <<>>, has_appearance |-> FALSE]

\* the slot replaced whatever its quality: the first one
bankFirst(slots) == 1

\* the first slot of the lowest quality in a full bank
bankWorst(slots) ==
    CHOOSE w \in DOMAIN slots :
        /\ \A i \in DOMAIN slots : slots[w].q <= slots[i].q
        /\ \A i \in DOMAIN slots : slots[i].q = slots[w].q => w <= i

\* insert_at with a sample as good as the worst slot replacing it
bankInsertAtTie(slots, q) ==
    IF Len(slots) < kAppearanceBankK THEN Len(slots) + 1
    ELSE IF q >= slots[bankWorst(slots)].q THEN bankWorst(slots)
    ELSE 0

\* insert_at: the next free slot, the worst slot when the sample is
\* strictly better than it, or 0 for no insertion
bankInsertAt(slots, q) ==
    IF Len(slots) < kAppearanceBankK THEN Len(slots) + 1
    ELSE IF q > slots[bankWorst(slots)].q THEN bankWorst(slots)
    ELSE 0

\* the appearance part of KalmanBoxTracker::update(det); n is the position
\* of det in the sequence of observations
bankUpdate(b, det, n) ==
    LET q == Max2(0, det.reid_quality) IN
    IF ~det.has_reid \/ q < kMinReidUpdateQuality THEN b
    ELSE IF bankInsertAt(b.slots, q) > 0
    THEN [slots |-> [i \in 1 .. Max2(Len(b.slots), bankInsertAt(b.slots, q)) |->
                        IF i = bankInsertAt(b.slots, q)
                        THEN [q |-> q, src |-> n] ELSE b.slots[i]],
          has_appearance |-> TRUE]
    ELSE IF ~b.has_appearance
    THEN [slots |-> <<[q |-> q, src |-> n]>>, has_appearance |-> TRUE]
    ELSE b

\* KalmanBoxTracker(det, ...)
InitB ==
    /\ \E det \in BankInputs :
        /\ bank = bankNew(det)
        /\ fed = <<det>>
    /\ st_trk = <<>>
    /\ test = [phase |-> "idle"]
    /\ EngineIdle
    /\ HIdle
    /\ PIdle
    /\ DIdle
    /\ OIdle

\* trk.update(det)
BankUpdate ==
    /\ Len(fed) < MaxFed
    /\ \E det \in BankInputs :
        /\ bank' = bankUpdate(bank, det, Len(fed) + 1)
        /\ fed' = Append(fed, det)
    /\ UNCHANGED <<st_trk, test, hvars, evars, gvars, pvars, dvars, ovars>>

NextB == BankUpdate

SpecB == InitB /\ [][NextB]_vars

-----------------------------------------------------------------------------
(* FacePipeline::process: which frames the detector sees and what the     *)
(* engine is given per frame. A frame is described by whether it decodes  *)
(* and whether the detector finds a face in it; frames are numbered from  *)
(* 0 as in the source.                                                    *)

MaxN == 4

\* video_fps and detection_fps_, in frames per second
Rates == {[video_fps |-> 5, detection_fps |-> 10], [video_fps |-> 30, detection_fps |-> 30],
          [video_fps |-> 30, detection_fps |-> 15], [video_fps |-> 30, detection_fps |-> 10]}

\* stride = std::max(1, static_cast<int>(video_fps / detection_fps_))
Stride(in) == Max2(1, in.video_fps \div in.detection_fps)

\* the calls of process the model covers: 1 .. MaxN frames
ProcessInputs ==
    UNION {{[n |-> n, video_fps |-> r.video_fps, detection_fps |-> r.detection_fps,
             decodes |-> dec, face |-> fc] :
               r \in Rates, dec \in [0 .. n - 1 -> BOOLEAN], fc \in [0 .. n - 1 -> BOOLEAN]} :
           n \in 1 .. MaxN}

\* detectSingle(image_paths[i]) returns a non-empty list
FacesFound(in, i) == in.decodes[i] /\ in.face[i]

\* detectSingle(image_paths[i]) is called and its result is stored when it
\* is not empty
Detect(calls, dets, in, i) ==
    [calls |-> [calls EXCEPT ![i] = @ + 1],
     detections |-> IF FacesFound(in, i) THEN dets \cup {i} ELSE dets]

\* the warp is estimated whenever the current frame decodes
WarpAttemptedCurOnly(i, p_ok, cur_ok) == i > 0 /\ cur_ok

\* i > 0 && prev_ok && cur_ok
WarpAttempted(i, p_ok, cur_ok) == i > 0 /\ p_ok /\ cur_ok

\* process(image_paths, video_fps) with a loaded detector
InitD ==
    /\ d_pc = "detect"
    /\ d_in \in ProcessInputs
    /\ d_i = 0
    /\ detections = {}
    /\ d_calls = [i \in 0 .. d_in.n - 1 |-> 0]
    /\ prev_ok = FALSE
    /\ d_fed = <<>>
    /\ EngineIdle
    /\ HIdle
    /\ PIdle
    /\ SIdle
    /\ OIdle

\* one iteration of the sampling loop: for (i = 0; i < frame_count; i += stride)
DetectSampled ==
    /\ d_pc = "detect"
    /\ d_i < d_in.n
    /\ d_calls' = Detect(d_calls, detections, d_in, d_i).calls
    /\ detections' = Detect(d_calls, detections, d_in, d_i).detections
    /\ d_i' = d_i + Stride(d_in)
    /\ d_pc' = IF d_i + Stride(d_in) < d_in.n THEN "detect" ELSE "last"
    /\ UNCHANGED <<d_in, prev_ok, d_fed, hvars, evars, gvars, pvars, svars, ovars>>

\* "always detect on last frame if not already done"
DetectLast ==
    /\ d_pc = "last"
    /\ IF d_in.n - 1 \notin detections
       THEN /\ d_calls' = Detect(d_calls, detections, d_in, d_in.n - 1).calls
            /\ detections' = Detect(d_calls, detections, d_in, d_in.n - 1).detections
       ELSE UNCHANGED <<d_calls, detections>>
    /\ d_i' = 0
    /\ d_pc' = "track"
    /\ UNCHANGED <<d_in, prev_ok, d_fed, hvars, evars, gvars, pvars, svars, ovars>>

\* one iteration of the tracking loop up to tracker.update: the frame is
\* loaded, the warp estimated when both frames are there (the estimate
\* succeeds or fails), and the engine is given the frame's detections, the
\* warp when there is one, and the frame's size when it decoded
TrackStep ==
    /\ d_pc = "track"
    /\ d_i < d_in.n
    /\ \E estimated \in BOOLEAN :
        d_fed' = Append(d_fed,
                    [frame |-> d_i,
                     dets |-> d_i \in detections,
                     warp |-> WarpAttempted(d_i, prev_ok, d_in.decodes[d_i]) /\ estimated,
                     sized |-> d_in.decodes[d_i]])
    /\ prev_ok' = d_in.decodes[d_i]
    /\ d_i' = d_i + 1
    /\ d_pc' = IF d_i + 1 < d_in.n THEN "track" ELSE "done"
    /\ UNCHANGED <<d_in, detections, d_calls, hvars, evars, gvars, pvars, svars, ovars>>

NextD == DetectSampled \/ DetectLast \/ TrackStep

SpecD == InitD /\ [][NextD]_vars

-----------------------------------------------------------------------------
(* The scores associate gives to two detections for one tracker. The      *)
(* tracker is made from a first detection in the middle of the grid,      *)
(* updated in the next frame with a second one at most one unit away and  *)
(* predicted for the third frame, in which the candidates are scored.     *)

\* a box of 2 x 2 grid units with its corner at (x, y)
SquareAt(x, y) == BoxOf(x, y, x + 2, y + 2)

\* the scores of the candidate detections
OcmScores == {0, 50, 90}

\* the values of inertia_
OcmWeights == {0, InertiaWeight}

OcmInputs ==
    {[inertia |-> w, step |-> st, gain |-> g, a |-> a, b |-> b] :
        w \in OcmWeights, st \in (-1 .. 1) \X (-1 .. 1), g \in Gains,
        a \in (0 .. 4) \X (1 .. 3) \X OcmScores,
        b \in (0 .. 4) \X (1 .. 3) \X OcmScores}

\* the engine's arguments with the given inertia_
OcmConfig(w) == [(CHOOSE c \in Configs : ~c.use_reid) EXCEPT !.inertia = w]

\* the tracker in the third frame, before association
OcmTracker(in) ==
    predict(updateWith(predict(NewTracker(DetectionOf(SquareAt(2, 2), 90, FALSE, 0), 0, 3)),
                       DetectionOf(SquareAt(2 + in.step[1], 2 + in.step[2]), 90, FALSE, 0),
                       in.gain))

\* a candidate detection
OcmCandidate(p) == DetectionOf(SquareAt(p[1], p[2]), p[3], FALSE, 0)

\* what the score loop computes for one candidate
OcmTerms(c, trk, det) ==
    [iou |-> iou(det.bbox, getState(trk)),
     score |-> det.score,
     dir |-> speed_direction(kPreviousObservation(trk, c.delta_t).bbox, det.bbox),
     combined |-> Combined(c, trk, det),
     total |-> PrimaryScores(c, <<trk>>, <<det>>, <<>>,
                             PrimaryIoU(<<trk>>, <<det>>))[<<1, 1>>]]

InitO ==
    /\ ocm_in \in OcmInputs
    /\ ocm_out = <<>>
    /\ EngineIdle
    /\ HIdle
    /\ PIdle
    /\ SIdle
    /\ DIdle

\* the score loop of associate on the two candidates
ScorePair ==
    /\ ocm_out = <<>>
    /\ ocm_out' = [trk |-> OcmTracker(ocm_in),
                   a |-> OcmTerms(OcmConfig(ocm_in.inertia), OcmTracker(ocm_in),
                                  OcmCandidate(ocm_in.a)),
                   b |-> OcmTerms(OcmConfig(ocm_in.inertia), OcmTracker(ocm_in),
                                  OcmCandidate(ocm_in.b))]
    /\ UNCHANGED <<ocm_in, hvars, evars, gvars, pvars, svars, dvars>>

NextO == ScorePair

SpecO == InitO /\ [][NextO]_vars

-----------------------------------------------------------------------------
(* Properties of HungarianAlgorithm::solve *)

\* the rows an assignment vector assigns
AssignedRows(a) == {row \in DOMAIN a : a[row] >= 0}

\* cost of an assignment vector on the caller's cost matrix
AssignCost(cm, a) ==
    SumOver(AssignedRows(a), [row \in AssignedRows(a) |-> cm.m[<<row, a[row]>>]])

\* the injective assignments of min(M,N) rows of cm to distinct columns
Feasible(cm) ==
    {a \in [0 .. cm.rows - 1 -> -1 .. cm.cols - 1] :
        /\ Cardinality(AssignedRows(a)) = Min2(cm.rows, cm.cols)
        /\ \A r1, r2 \in AssignedRows(a) : a[r1] = a[r2] => r1 = r2}

C9_ReturnIsTotalCost ==
    h_pc = "done" => h_ret = AssignCost(h_cost, h_assignment)

\* C10: the assignment has one entry per row, each -1 or a column index, no
\* column is used twice and exactly min(M,N) rows are assigned; no rows give
\* the empty assignment and no columns give all entries -1.
C10_AssignmentShape ==
    h_pc = "done" =>
        /\ DOMAIN h_assignment = 0 .. h_cost.rows - 1
        /\ \A row \in DOMAIN h_assignment :
              h_assignment[row] \in -1 .. h_cost.cols - 1
        /\ \A r1, r2 \in AssignedRows(h_assignment) :
              h_assignment[r1] = h_assignment[r2] => r1 = r2
        /\ Cardinality(AssignedRows(h_assignment)) = Min2(h_cost.rows, h_cost.cols)
        /\ (h_cost.rows = 0 => h_assignment = <<>>)
        /\ (h_cost.cols = 0 => \A row \in DOMAIN h_assignment : h_assignment[row] = -1)

\* a solved rectangular matrix with more rows than columns: one row is left
\* unassigned
C10_Witness ==
    /\ h_pc = "done" /\ h_cost.rows = 3 /\ h_cost.cols = 2
    /\ Cardinality(AssignedRows(h_assignment)) = 2
    /\ \E row \in 0 .. 2 : h_assignment[row] = -1

-----------------------------------------------------------------------------
(* Properties of OCSort::update *)

\* the ids of the live trackers
LiveIds == {trackers[i].track_id : i \in 1 .. Len(trackers)}

\* the live tracker with the given id
LiveTracker(id) == trackers[CHOOSE i \in 1 .. Len(trackers) : trackers[i].track_id = id]

\* the ids the last call matched to a detection or spawned
TouchedIds == {p[2] : p \in last.primary \cup last.ocr \cup last.spawned}

\* C1: every spawned tracker gets an id greater than every id given before
\* it, no two trackers (live or retired) share an id, and the id of a
\* removed tracker is in no later result.
C1_IdsFreshAndUnique ==
    /\ \A i, j \in 1 .. Len(issued) : i < j => issued[i] < issued[j]
    /\ \A i, j \in 1 .. Len(trackers) :
          trackers[i].track_id = trackers[j].track_id => i = j
    /\ LiveIds \cap retired = {}
    /\ LiveIds \cup retired = Range(issued)
    /\ DOMAIN result \cap retired = {}

\* a tracker has been removed, a later call spawned two trackers at once
\* and emitted one of them
C1_Witness ==
    /\ retired # {}
    /\ last.frame >= 2 /\ last.removed = {} /\ last.n_spawned = 2
    /\ \E id \in DOMAIN result : \E r \in retired : id > r

\* C2: after every call each live tracker has time_since_update <= max_age,
\* and a track that the last k calls in a row left unmatched is live after
\* the k-th of them iff k <= max_age; it is removed by the call in which k
\* first exceeds max_age.
C2_RetireAtMaxAge ==
    /\ \A i \in 1 .. Len(trackers) : trackers[i].time_since_update <= cfg.max_age
    /\ \A id \in DOMAIN history :
          /\ (id \in LiveIds) <=> (history[id].missed <= cfg.max_age)
          /\ (id \in LiveIds) => LiveTracker(id).time_since_update = history[id].missed
          /\ (id \notin LiveIds) => /\ history[id].missed = cfg.max_age + 1
                                     /\ id \in last.removed
    /\ last.frame >= 1 => last.removed = {id \in DOMAIN history : id \notin LiveIds}

\* with max_age = 1, one track has missed one call and is live, another has
\* missed two and was removed by the last call
C2_Witness ==
    /\ cfg.max_age = 1
    /\ \E id \in DOMAIN history : history[id].missed = 1 /\ id \in LiveIds
    /\ \E id \in DOMAIN history : history[id].missed = 2 /\ id \in last.removed

\* C3: a live tracker is in the returned map iff it is confirmed and
\* emittable: confirmed = (return_all ? hits >= min_hits : hit_streak >=
\* min_hits) or (calls so far <= min_hits), emittable = return_all or
\* time_since_update = 0; nothing else is in the map.
C3_EmitIffConfirmedAndEmittable ==
    last.frame >= 1 =>
        /\ DOMAIN result \subseteq LiveIds
        /\ \A i \in 1 .. Len(trackers) :
              LET t == trackers[i]
                  confirmed ==
                      \/ (last.return_all /\ t.hits >= cfg.min_hits)
                      \/ (~last.return_all /\ t.hit_streak >= cfg.min_hits)
                      \/ frame_count <= cfg.min_hits
                  emittable == last.return_all \/ t.time_since_update = 0
              IN  (t.track_id \in DOMAIN result) <=> (confirmed /\ emittable)

\* past the first min_hits calls, in one map: a tracker emitted on its
\* hits, a live tracker held back as unconfirmed
C3_Witness ==
    /\ frame_count > cfg.min_hits
    /\ \E i, j \in 1 .. Len(trackers) :
          /\ trackers[i].track_id \in DOMAIN result
          /\ trackers[j].track_id \notin DOMAIN result
          /\ trackers[j].time_since_update = 0

\* C4: with return_all, a track that is in the returned map stays in the
\* returned map of every later call for as long as it is live.
C4_StaysEmitted ==
    [][(cfg.return_all /\ last.frame >= 1) =>
          \A id \in DOMAIN result : id \in LiveIds' => id \in DOMAIN result']_vars

\* C5: the confidence of an emitted track is s * max(0, 1 - 0.05 * tsu) for
\* the score s of its last matched detection; it is s when the track was
\* matched by this call; the factor does not increase with tsu and is 0 from
\* tsu = 20 on.
C5_ConfidenceDecay ==
    /\ last.frame >= 1 =>
          \A id \in DOMAIN result :
              LET tsu == LiveTracker(id).time_since_update
                  s == history[id].det.score
              IN  /\ result[id].confidence = s * Max2(0, Unit - 5 * tsu)
                  /\ (id \in TouchedIds => result[id].confidence = s * Unit)
    /\ \A a, b \in 0 .. MaxTsu : a <= b => Decay(a) >= Decay(b)
    /\ \A a \in 20 .. MaxTsu : Decay(a) = 0
    /\ Decay(0) = Unit /\ Decay(19) > 0

\* a track is emitted one call after its last match, with a confidence
\* below the score of that match
C5_Witness ==
    \E id \in DOMAIN result :
        /\ LiveTracker(id).time_since_update = 1
        /\ id \notin TouchedIds
        /\ result[id].confidence = history[id].det.score * 95
        /\ history[id].missed = 1

\* C6: the bbox of an emitted track is the bbox of the detection this call
\* matched to it (or spawned it from) when time_since_update = 0, and the
\* filter state after predict and warp otherwise; without return_all every
\* emitted bbox is the bbox of one of the call's detections.
C6_EmittedBBox ==
    last.frame >= 1 =>
        /\ \A id \in DOMAIN result :
              LET t == LiveTracker(id)
                  pairs == {p \in last.primary \cup last.ocr \cup last.spawned : p[2] = id}
              IN  IF t.time_since_update = 0
                  THEN /\ pairs # {}
                       /\ \A p \in pairs : result[id].bbox = last.dets[p[1]].bbox
                  ELSE /\ pairs = {}
                       /\ id \in DOMAIN last.state
                       /\ result[id].bbox = last.state[id]
        /\ ~last.return_all =>
              \A id \in DOMAIN result :
                  \E k \in 1 .. Len(last.dets) : result[id].bbox = last.dets[k].bbox

\* one map with a track matched by this call to a detection its filter
\* state differs from, and a track emitted on its prediction
C6_Witness ==
    \E a, b \in DOMAIN result :
        /\ a \in {p[2] : p \in last.primary \cup last.ocr}
        /\ getState(LiveTracker(a)) # result[a].bbox
        /\ LiveTracker(b).time_since_update > 0
        /\ result[b].bbox = last.state[b]

\* C7: every detection of a call is in exactly one primary match, OCR match
\* or spawn, no tracker takes two detections, no tracker is created
\* otherwise: primary + OCR + spawned = number of detections.
C7_DetectionsConsumedOnce ==
    last.frame >= 1 =>
        LET pairs == last.primary \cup last.ocr \cup last.spawned IN
        /\ last.n_primary + last.n_ocr + last.n_spawned = Len(last.dets)
        /\ \A d \in 1 .. Len(last.dets) : Cardinality({p \in pairs : p[1] = d}) = 1
        /\ \A p \in pairs : p[1] \in 1 .. Len(last.dets)
        /\ \A p, q \in pairs : p[2] = q[2] => p = q
        /\ \A p \in last.primary \cup last.ocr : p[2] \in last.before
        /\ (LiveIds \cup last.removed) \ last.before = {p[2] : p \in last.spawned}
        /\ Len(trackers) + Cardinality(last.removed)
              = Cardinality(last.before) + last.n_spawned

\* a call whose two detections went one to an OCR match and one to a spawn
C7_Witness ==
    /\ last.frame >= 1
    /\ Len(last.dets) = 2
    /\ last.n_ocr = 1 /\ last.n_spawned = 1

\* C16: at the end of every engine frame, for every live track, age is
\* the number of frames since its spawn frame, hits the number of frames
\* (spawn frame included) that matched it to a detection, and
\* time_since_update the number of frames since the last such frame
C16_CountersCountFrames ==
    last.frame >= 1 =>
        \A id \in LiveIds :
            /\ LiveTracker(id).age = last.frame - history[id].born
            /\ LiveTracker(id).hits = history[id].matched
            /\ LiveTracker(id).time_since_update = history[id].missed

\* a live track spawned two frames ago was matched in one later frame
\* and missed in the other
C16_Witness ==
    /\ last.frame >= 3
    /\ \E id \in LiveIds :
          /\ history[id].born = last.frame - 2
          /\ history[id].matched = 2
          /\ LiveTracker(id).age = 2

\* C17 as stated: at the end of every engine frame hit_streak of a live
\* track is the length of the run of consecutive matched frames ending at
\* that frame, 0 when the frame did not match the track
C17_StreakIsCurrentRun ==
    last.frame >= 1 =>
        \A id \in LiveIds :
            LiveTracker(id).hit_streak =
                IF history[id].missed = 0 THEN history[id].run ELSE 0

\* C17: at the end of every engine frame hit_streak of a live track is
\* the length of the run of consecutive matched frames ending at that
\* frame when the frame matched the track, still the length of the run
\* that ended the frame before at the end of the first unmatched frame,
\* and 0 at the end of every later unmatched frame
C17_StreakResetsOneFrameLate ==
    last.frame >= 1 =>
        \A id \in LiveIds :
            LiveTracker(id).hit_streak =
                IF history[id].missed <= 1 THEN history[id].run ELSE 0

\* a live track is in its second unmatched frame in a row and its
\* hit_streak is 0
C17_Witness ==
    /\ last.frame >= 3
    /\ \E id \in LiveIds : history[id].missed = 2 /\ LiveTracker(id).hit_streak = 0

-----------------------------------------------------------------------------
(* Properties of FacePipeline::process *)

\* the frame entries of a list of tracks
EntriesOf(tr) ==
    UNION {{tr[n].frames[k] : k \in 1 .. Len(tr[n].frames)} : n \in DOMAIN tr}

\* C11: every frame entry in the result of process has a bbox inside the
\* frame, 0 <= x1 < x2 <= 1 and 0 <= y1 < y2 <= 1, of width and height at
\* least 0.01, and a confidence between 0.05 and 1
C11_FrameEntryBounds ==
    \A e \in EntriesOf(tracks) :
        /\ 0 <= e.bbox.x1 /\ e.bbox.x1 < e.bbox.x2 /\ e.bbox.x2 <= PScale
        /\ 0 <= e.bbox.y1 /\ e.bbox.y1 < e.bbox.y2 /\ e.bbox.y2 <= PScale
        /\ 100 * (e.bbox.x2 - e.bbox.x1) >= PScale
        /\ 100 * (e.bbox.y2 - e.bbox.y1) >= PScale
        /\ 500 <= e.confidence /\ e.confidence <= 10000

\* a track whose bbox the engine gave partly outside the frame is in the
\* result, its entries clamped
C11_Witness ==
    /\ p_pc = "done"
    /\ BoxKind(scenario[1].kind).x1 < 0
    /\ \E n \in DOMAIN tracks :
          tracks[n].id = 0 /\ \A k \in DOMAIN tracks[n].frames :
                                  tracks[n].frames[k].bbox.x1 = 0

\* the ids whose frames were merged into the track of root r
MembersOf(r) == {id \in DOMAIN track_data : ufRoot(uf_parent, id) = r}

\* the entries recorded for frame f by the ids of M
RecordedAt(M, f) ==
    {e \in UNION {Range(track_data[id]) : id \in M} : e.frame_index = f}

\* C12: in every track of the result the frame indices are strictly
\* increasing, also when the track merges tracklets whose recorded frames
\* overlap, and the entry kept for a frame is one recorded for that frame
\* with the highest confidence among the merged tracklets
C12_FramesIncreasingBestKept ==
    p_pc = "done" =>
        \A n \in DOMAIN tracks :
            /\ \A k \in 1 .. Len(tracks[n].frames) - 1 :
                  tracks[n].frames[k].frame_index < tracks[n].frames[k + 1].frame_index
            /\ \A k \in 1 .. Len(tracks[n].frames) :
                  LET e == tracks[n].frames[k]
                      R == RecordedAt(MembersOf(tracks[n].id), e.frame_index)
                  IN  e \in R /\ \A o \in R : o.confidence <= e.confidence

\* a track of the result merges two tracklets that both recorded some
\* frame, with different confidences
C12_Witness ==
    /\ p_pc = "done"
    /\ \E n \in DOMAIN tracks :
          \E a, b \in MembersOf(tracks[n].id) :
              /\ a # b
              /\ \E ea \in Range(track_data[a]), eb \in Range(track_data[b]) :
                    ea.frame_index = eb.frame_index /\ ea.confidence < eb.confidence

\* the gap between the end of tracklet A and the start of tracklet B
GapOf(A, B) == B.start_frame - A.end_frame

\* cosine similarity of the appearances of tracklets A and B
SimBetween(A, B) == p_sim[{A.id, B.id}]

\* all gates of the linking stage hold of the pair (A, B)
GatesHold(A, B) ==
    /\ A.id \in appearances /\ B.id \in appearances
    /\ B.start_frame > A.end_frame
    /\ GapOf(A, B) <= LinkMaxGapLong(PipelineCfg)
    /\ CenterDistSq(A.end_bbox, B.start_bbox).num
          <= 4 * CenterDistSq(A.end_bbox, B.start_bbox).den
    /\ area(A.end_bbox) <= 4 * area(B.start_bbox)
    /\ area(B.start_bbox) <= 4 * area(A.end_bbox)
    /\ IF GapOf(A, B) <= LinkMaxGapShort(PipelineCfg)
       THEN SimBetween(A, B) >= PipelineCfg.reid_cos_thresh
       ELSE /\ A.conf_ge_thresh >= 6 /\ B.conf_ge_thresh >= 6
            /\ SimBetween(A, B) >= PipelineCfg.reid_cos_thresh
            /\ SimBetween(A, B) >= 50

\* the pair (A, B) is strictly better than the pair (C, D): more
\* similar, or as similar and closer
StrictlyBetter(A, B, C, D) ==
    \/ SimBetween(A, B) > SimBetween(C, D)
    \/ /\ SimBetween(A, B) = SimBetween(C, D)
       /\ DistLess(CenterDistSq(A.end_bbox, B.start_bbox),
                   CenterDistSq(C.end_bbox, D.start_bbox))

\* C13: every pair of tracklets united by the offline linking passes all
\* gates (appearances, order, gap, distance, area ratio, similarity with
\* the long-gap conditions) and is a mutual nearest neighbour: no other
\* successor of A and no other predecessor of B that passes the gates is
\* strictly better
C13_UnitedPairsPassGates ==
    \A p \in links :
        LET A == tracklets[p[1]]
            B == tracklets[p[2]]
        IN  /\ GatesHold(A, B)
            /\ \A m \in DOMAIN tracklets :
                  (m # p[1] /\ GatesHold(A, tracklets[m]))
                      => ~StrictlyBetter(A, tracklets[m], A, B)
            /\ \A m \in DOMAIN tracklets :
                  (m # p[2] /\ GatesHold(tracklets[m], B))
                      => ~StrictlyBetter(tracklets[m], B, A, B)

\* a pair is united across a long gap although its first tracklet had
\* another successor that passes the gates
C13_Witness ==
    \E p \in links :
        /\ GapOf(tracklets[p[1]], tracklets[p[2]]) > LinkMaxGapShort(PipelineCfg)
        /\ \E m \in DOMAIN tracklets :
              m # p[2] /\ m # p[1] /\ GatesHold(tracklets[p[1]], tracklets[m])

\* the number of frames of confidence at least conf_thresh (0.5)
HighFrames(frames) ==
    Cardinality({k \in 1 .. Len(frames) : frames[k].confidence >= 5000})

\* a merged track passes the three tests of the filter
PassesFilter(frames) ==
    /\ Len(frames) >= 10
    /\ HighFrames(frames) >= 3
    /\ 100 * HighFrames(frames) >= 15 * Len(frames)

\* C14: the result holds exactly the merged tracks with at least 10
\* frames, at least 3 frames of confidence >= conf_thresh and at least
\* 15% of such frames, each with its merged frames, sorted by ascending id
C14_FilteredAndSorted ==
    p_pc = "done" =>
        /\ \A n \in 1 .. Len(tracks) - 1 : tracks[n].id < tracks[n + 1].id
        /\ \A n \in DOMAIN tracks :
              /\ tracks[n].id \in DOMAIN merged_data
              /\ tracks[n].frames = merged_data[tracks[n].id]
              /\ PassesFilter(tracks[n].frames)
        /\ \A r \in DOMAIN merged_data :
              PassesFilter(merged_data[r]) => \E n \in DOMAIN tracks : tracks[n].id = r

\* the result holds a track, and a merged track of 10 frames or more
\* with 3 confident frames or more was dropped for its fraction
C14_Witness ==
    /\ p_pc = "done"
    /\ tracks # <<>>
    /\ \E r \in DOMAIN merged_data :
          /\ Len(merged_data[r]) >= 10
          /\ HighFrames(merged_data[r]) >= 3
          /\ ~PassesFilter(merged_data[r])

-----------------------------------------------------------------------------
(* Properties of one KalmanBoxTracker *)

\* C15: in the self-test (centers 0.20, 0.25, 0.30, then 5 frames of
\* predict and update(none), then predict and update at center 0.80) the
\* next predict returns a center cx9 with cx9 > cx8 + 0.02, cx8 the center
\* right after the update of the re-observation
C15_OruKeepsVelocity ==
    (test.phase = "done" /\ test.reobs = 800000 /\ test.occl = 5)
        => test.cx9 > test.cx8 + 20000

\* the self-test has run to its end, and the re-observation ran ORU over
\* the gap of 6 frames
C15_Witness ==
    /\ test.phase = "done" /\ test.reobs = 800000 /\ test.occl = 5
    /\ test.oru_gap = 6
    /\ Len(st_trk.oru_history) = 9

\* the qualities of the samples in the bank, and those of the observations
\* fed with a vector
BankQualities == [i \in DOMAIN bank.slots |-> bank.slots[i].q]

FedQualities == [i \in DOMAIN SelectSeq(fed, LAMBDA d : d.has_reid) |->
                    SelectSeq(fed, LAMBDA d : d.has_reid)[i].reid_quality]

\* a sequence as a multiset
BagOf(s) == [v \in Range(s) |-> Cardinality({i \in DOMAIN s : s[i] = v})]

\* a sequence without its first largest element
RECURSIVE DropMax(_)
DropMax(s) ==
    IF \A i \in DOMAIN s : s[1] >= s[i] THEN Tail(s)
    ELSE <<s[1]>> \o DropMax(Tail(s))

\* the k largest elements of a sequence, all of it when it is shorter
RECURSIVE TopK(_, _)
TopK(s, k) ==
    IF k = 0 \/ s = <<>> THEN <<>>
    ELSE <<CHOOSE m \in Range(s) : \A v \in Range(s) : m >= v>> \o TopK(DropMax(s), k - 1)

\* C18 as stated: the qualities in the bank are, as a multiset, the
\* kAppearanceBankK largest qualities of the observations fed with a vector
C18_BankHoldsTopK ==
    fed # <<>> => BagOf(BankQualities) = BagOf(TopK(FedQualities, kAppearanceBankK))

\* C18: the qualities in the bank are, as a multiset, the kAppearanceBankK
\* largest of the qualities of at least kMinReidUpdateQuality among the
\* observations fed with a vector, and the bank holds none below it
C18_BankHoldsTopKOfEligible ==
    fed # <<>> =>
        BagOf(BankQualities) =
            BagOf(TopK(SelectSeq(FedQualities, LAMBDA q : q >= kMinReidUpdateQuality),
                       kAppearanceBankK))

\* more eligible samples were fed than the bank holds, a later one
\* replaced an earlier one, and one was turned away
C18_Witness ==
    /\ Len(SelectSeq(FedQualities, LAMBDA q : q >= kMinReidUpdateQuality)) > kAppearanceBankK
    /\ Len(bank.slots) = kAppearanceBankK
    /\ \E i \in DOMAIN bank.slots : bank.slots[i].src > kAppearanceBankK /\ bank.slots[i].src > i
    /\ \E i \in DOMAIN bank.slots : bank.slots[i].q = kMinReidUpdateQuality

-----------------------------------------------------------------------------
(* Properties of the finished appearances *)

\* the number of takeFinishedAppearances calls that returned id
TimesReturned(id) == IF id \in DOMAIN returned THEN returned[id] ELSE 0

-----------------------------------------------------------------------------
(* Properties of OCSort::reset *)

\* C20: after reset, every update call returns the map (ids, bboxes,
\* confidences) that the same calls return on a newly constructed engine
\* with the same parameters
C20_ResetLikeNew == fresh.frame_count >= 1 => result = fresh.result

-----------------------------------------------------------------------------
(* Properties of one update call, read from the engine it started from *)

\* the outcomes of the last update call had it been given the warp w
LastCallWith(w) ==
    UpdateOutcomes(cfg, prev.trackers, prev.next_id, frame_count - 1, last.dets,
                   last.return_all, w)

\* the trackers the last call started from, after predict and with
\* velocity_dir cleared
PredictedNoDir ==
    [i \in 1 .. Len(prev.trackers) |->
        [predict(prev.trackers[i]) EXCEPT !.velocity_dir = NoDir]]

\* what a caller sees of a set of outcomes: the matches of both passes,
\* the spawns and the returned map
Seen(S) ==
    {[primary |-> o.last.primary, ocr |-> o.last.ocr, spawned |-> o.last.spawned,
      result |-> o.result] : o \in S}

IdentityWarpClearsDirOnly ==
    (last.frame >= 1 /\ prev.warp = Identity) =>
        LastCallWith(Identity) =
            FromPredict(cfg, prev.trackers, prev.next_id, frame_count - 1,
                        last.dets, last.return_all, NoWarp, PredictedNoDir)

\* the next update call returns the same and makes the same matches
\* whether or not the last call was made
NextCallUnaffected ==
    \A dets \in DetLists :
        Seen(UpdateOutcomes(cfg, trackers, next_id, frame_count, dets,
                            cfg.return_all, NoWarp))
            = Seen(UpdateOutcomes(cfg, prev.trackers, prev.next_id, frame_count - 1,
                                  dets, cfg.return_all, NoWarp))

\* the last call matched nothing
NoMatches == last.primary = {} /\ last.ocr = {}

\* with no detections every tracker gets update(none) after predict and
\* warp, and none is spawned
AllUnmatched ==
    /\ NoMatches
    /\ last.spawned = {}
    /\ next_id = prev.next_id
    /\ \A pre \in {Predicted(prev.trackers, prev.warp)} :
          trackers = KeptOf(cfg, [i \in 1 .. Len(pre) |->
                [pre[i] EXCEPT !.oru_history = Append(@, FALSE)]])

\* with no trackers every detection spawns a tracker, in list order
AllSpawned ==
    /\ NoMatches
    /\ last.spawned = {<<k, prev.next_id + k - 1>> : k \in 1 .. Len(last.dets)}
    /\ next_id = prev.next_id + Len(last.dets)
    /\ Len(trackers) = Len(last.dets)

\* C22 as stated: an update call with no detections on an engine without
\* trackers returns an empty map and leaves the engine as it was, so that
\* the next call returns what it would have returned without this call;
\* with no detections every tracker gets update(none) and none is
\* spawned; with no trackers every detection spawns a tracker
C22_EmptyCallIsNoOp ==
    last.frame >= 1 =>
        /\ (last.dets = <<>> /\ prev.trackers = <<>>) =>
              /\ result = <<>>
              /\ trackers = <<>> /\ next_id = prev.next_id /\ finished = prev.finished
              /\ frame_count < MaxFrames => NextCallUnaffected
        /\ (last.dets = <<>> /\ prev.trackers # <<>>) => AllUnmatched
        /\ (last.dets # <<>> /\ prev.trackers = <<>>) => AllSpawned

\* C22: an update call with no detections on an engine without trackers
\* returns an empty map and changes nothing of the engine but
\* frame_count_, which it increments; with no detections every tracker
\* gets update(none) and none is spawned; with no trackers every
\* detection spawns a tracker
C22_EmptyCallOnlyCounts ==
    last.frame >= 1 =>
        /\ (last.dets = <<>> /\ prev.trackers = <<>>) =>
              /\ result = <<>>
              /\ trackers = <<>> /\ next_id = prev.next_id /\ finished = prev.finished
              /\ frame_count = last.frame /\ last.frame = fresh.frame_count
        /\ (last.dets = <<>> /\ prev.trackers # <<>>) => AllUnmatched
        /\ (last.dets # <<>> /\ prev.trackers = <<>>) => AllSpawned

\* a call with no detections was made on an engine whose trackers had
\* all been removed, after a call with no detections on live trackers
C22_Witness ==
    /\ last.frame >= 3
    /\ last.dets = <<>>
    /\ prev.trackers = <<>>
    /\ prev.next_id > 0
    /\ prev.finished # {}

-----------------------------------------------------------------------------
(* Properties of the detection sampling *)

\* frame i is one the detector is meant to see
Sampled(i) == i % Stride(d_in) = 0 \/ i = d_in.n - 1

\* C23: when process is through, the detector was called once on every
\* frame that is a multiple of stride or the last one and on no other
\* frame, and the engine was given one update per frame, with detections
\* only on such frames
C23_DetectorOncePerSampledFrame ==
    d_pc = "done" =>
        /\ \A i \in 0 .. d_in.n - 1 : d_calls[i] = IF Sampled(i) THEN 1 ELSE 0
        /\ Len(d_fed) = d_in.n
        /\ \A k \in 1 .. Len(d_fed) :
              d_fed[k].frame = k - 1 /\ (d_fed[k].dets => Sampled(k - 1))

\* C24: a frame that does not decode has no entry in the detections map;
\* the engine is updated once for it, with no detections, no warp and no
\* frame size, and gets no warp for the frame after it either; a frame
\* that decodes after a frame that decodes is given its detections and may
\* be given a warp
C24_UndecodableFrameSkipped ==
    /\ \A i \in detections : d_in.decodes[i]
    /\ \A k \in 1 .. Len(d_fed) :
          /\ d_fed[k].frame = k - 1
          /\ ~d_in.decodes[k - 1] => ~d_fed[k].dets /\ ~d_fed[k].warp /\ ~d_fed[k].sized
          /\ (k >= 2 /\ ~d_in.decodes[k - 2]) => ~d_fed[k].warp
          /\ d_in.decodes[k - 1] =>
                /\ d_fed[k].sized
                /\ d_fed[k].dets = (Sampled(k - 1) /\ d_in.face[k - 1])
    /\ d_pc = "done" => Len(d_fed) = d_in.n

\* process is through; frame 1 did not decode, frames 0, 2 and 3 did, and
\* the engine got detections for frame 2 and a warp for frame 3
C24_Witness ==
    /\ d_pc = "done"
    /\ d_in.n = 4
    /\ ~d_in.decodes[1] /\ d_in.decodes[0] /\ d_in.decodes[2] /\ d_in.decodes[3]
    /\ d_fed[3].dets
    /\ d_fed[4].warp

-----------------------------------------------------------------------------
(* Properties of the score matrix *)

\* the tracker has a direction, the candidates have the same IoU with its
\* state and the same score, a moves along the direction and b against it
AlignedAndOpposite ==
    /\ ocm_out # <<>>
    /\ ocm_out.trk.velocity_dir # NoDir
    /\ ocm_out.trk.velocity_dir # <<0, 0>>
    /\ ocm_out.a.iou = ocm_out.b.iou
    /\ ocm_out.a.score = ocm_out.b.score
    /\ ocm_out.a.dir = ocm_out.trk.velocity_dir
    /\ ocm_out.b.dir = <<-ocm_out.trk.velocity_dir[1], -ocm_out.trk.velocity_dir[2]>>

\* C25 as stated: of two detections with the same IoU and the same score,
\* the one aligned with velocity_dir has a strictly higher combined score
\* than the one opposite to it
C25_AlignedScoresHigher ==
    AlignedAndOpposite => ocm_out.a.combined > ocm_out.b.combined

\* C25: of two detections with the same IoU and the same positive score,
\* with inertia_ > 0, the one aligned with velocity_dir has a strictly
\* higher combined score than the one opposite to it, and a strictly
\* higher entry in the score matrix when the IoU passes the gate
C25_AlignedScoresHigherWhenWeighted ==
    (AlignedAndOpposite /\ ocm_in.inertia > 0 /\ ocm_out.a.score > 0) =>
        /\ ocm_out.a.combined > ocm_out.b.combined
        /\ ocm_out.a.iou >= OcmConfig(ocm_in.inertia).iou_thresh =>
              ocm_out.a.total > ocm_out.b.total

\* two candidates on either side of a moving tracker, both passing the
\* gate, with a positive score and inertia_ > 0
C25_Witness ==
    /\ AlignedAndOpposite
    /\ ocm_in.inertia > 0
    /\ ocm_out.a.score > 0
    /\ ocm_out.a.iou >= OcmConfig(ocm_in.inertia).iou_thresh
    /\ ocm_out.a.iou < FX

-----------------------------------------------------------------------------
(* Properties of the accepted matches *)

\* the last observation of the tracker with the given id as the passes of
\* the last call read it: after predict and the warp
LastObservationIn(id) ==
    LET pre == Predicted(prev.trackers, prev.warp)
    IN  pre[CHOOSE i \in 1 .. Len(pre) : pre[i].track_id = id].last_observation

\* C26: every match of the primary pass has an IoU of detection and
\* predicted tracker state of at least iou_thresh, and every match of the
\* second pass an IoU of detection and the tracker's last observation of
\* at least iou_thresh
C26_MatchesPassIoUGate ==
    last # NoCall =>
        /\ \A m \in last.primary :
              iou(last.dets[m[1]].bbox, last.state[m[2]]) >= cfg.iou_thresh
        /\ \A m \in last.ocr :
              /\ LastObservationIn(m[2]).has
              /\ iou(last.dets[m[1]].bbox, LastObservationIn(m[2]).det.bbox)
                    >= cfg.iou_thresh

\* a call whose second pass matched a detection to a track that was
\* matched in both earlier calls and whose predicted state the detection
\* does not overlap enough
C26_Witness ==
    /\ last # NoCall
    /\ \E m \in last.ocr :
          /\ history[m[2]].matched >= 3
          /\ iou(last.dets[m[1]].bbox, last.state[m[2]]) < cfg.iou_thresh

\* the matches, by track id, the solver and the IoU gate make of the
\* detections and predicted trackers of the last call
SolverMatches(pre, iou_matrix) ==
    {<<m[1], pre[m[2]].track_id>> :
        m \in Range(PrimaryAccept(cfg, iou_matrix,
                                  SolverAssignment(cfg, pre, last.dets, <<>>, iou_matrix),
                                  Len(last.dets), Len(pre)).matched)}

\* the last call had detections and trackers and took the fast path
FastPathTaken(pre, iou_matrix) ==
    /\ last.dets # <<>>
    /\ pre # <<>>
    /\ UseFastPath(cfg, iou_matrix, Len(last.dets), Len(pre))

\* the primary matches of the last call are those of the solver and gate
SameAsSolver(pre, iou_matrix) ==
    FastPathTaken(pre, iou_matrix) => last.primary = SolverMatches(pre, iou_matrix)

\* no pair of the last call has an IoU equal to iou_thresh
OffThreshold(iou_matrix) ==
    \A p \in DOMAIN iou_matrix : iou_matrix[p] # cfg.iou_thresh

\* C27: whenever the primary pass takes the fast path, the pairs it
\* accepts are the pairs the solver followed by the IoU gate accepts on
\* the same detections and trackers
C27_FastPathSameAsSolver ==
    last # NoCall =>
        \A pre \in {Predicted(prev.trackers, prev.warp)} :
            SameAsSolver(pre, PrimaryIoU(pre, last.dets))

\* the fast path and the solver accept the same pairs when no IoU equals
\* iou_thresh
FastPathSameOffThreshold ==
    last # NoCall =>
        \A pre \in {Predicted(prev.trackers, prev.warp)} :
            OffThreshold(PrimaryIoU(pre, last.dets)) =>
                SameAsSolver(pre, PrimaryIoU(pre, last.dets))

\* the detections the primary pass of the last call left unmatched
LeftDetections == (1 .. Len(last.dets)) \ {m[1] : m \in last.primary}

\* the trackers the primary pass of the last call left unmatched
LeftTrackers == last.before \ {m[2] : m \in last.primary}

\* the IoU of a detection of the last call and a tracker's last observation
LastObservationIoU(d, id) ==
    IF LastObservationIn(id).has
    THEN iou(last.dets[d].bbox, LastObservationIn(id).det.bbox) ELSE 0

\* C28: when the primary pass leaves exactly one detection and one
\* tracker unmatched and the IoU of the detection and the tracker's last
\* observation is at least iou_thresh, the second pass matches them and no
\* tracker is spawned
C28_LonePairAtGateMatched ==
    last # NoCall =>
        \A d \in LeftDetections, id \in LeftTrackers :
            (/\ Cardinality(LeftDetections) = 1
             /\ Cardinality(LeftTrackers) = 1
             /\ LastObservationIoU(d, id) >= cfg.iou_thresh)
            => last.ocr = {<<d, id>>} /\ last.n_spawned = 0

\* the same with an IoU above iou_thresh, or with appearance in use
LonePairAboveGateMatched ==
    last # NoCall =>
        \A d \in LeftDetections, id \in LeftTrackers :
            (/\ Cardinality(LeftDetections) = 1
             /\ Cardinality(LeftTrackers) = 1
             /\ LastObservationIoU(d, id) >= cfg.iou_thresh
             /\ cfg.use_reid \/ LastObservationIoU(d, id) > cfg.iou_thresh)
            => last.ocr = {<<d, id>>} /\ last.n_spawned = 0

-----------------------------------------------------------------------------
(* Properties of the order of the phases of one update call *)

\* the tracker with the given id in a list
TrackerOf(trks, id) == trks[CHOOSE i \in 1 .. Len(trks) : trks[i].track_id = id]

\* the ids of a list of trackers
IdsOf(trks) == {trks[i].track_id : i \in 1 .. Len(trks)}

\* both association passes ran before any tracker was updated: when
\* associateOCR was called every tracker was as predict left it, with
\* time_since_update >= 1
NothingUpdatedAtOCR == \A id \in last.before : last.at_ocr[id] >= 1

\* the matched updates of the primary pass were applied before
\* associateOCR was called: exactly the trackers of the primary matches had
\* time_since_update = 0 then
PrimaryUpdatedAtOCR ==
    \A id \in last.before :
        last.at_ocr[id] = 0 <=> id \in {m[2] : m \in last.primary}

\* the primary pass saw the trackers after predict and the warp
AssociatedAfterPredict ==
    \A pre \in {Predicted(prev.trackers, prev.warp)} :
        /\ IdsOf(pre) = last.before
        /\ \A id \in last.before : last.state[id] = getState(TrackerOf(pre, id))

\* the spawned trackers are as constructed: no update touched them, and
\* the retire block ran on the list with them and left no expired tracker
SpawnedThenRetired ==
    /\ \A k \in 1 .. last.n_spawned :
          /\ last.spawned_ids[k] \in IdsOf(trackers)
          /\ \E p \in last.spawned :
                /\ p[2] = last.spawned_ids[k]
                /\ TrackerOf(trackers, p[2]) =
                      NewTracker(last.dets[p[1]], p[2], cfg.delta_t)
    /\ \A i \in 1 .. Len(trackers) : ~Expired(cfg, trackers[i])
    /\ last.removed = (last.before \cup Range(last.spawned_ids)) \ IdsOf(trackers)

OCRUnaffectedByPrimaryUpdates ==
    last # NoCall =>
        \A pre \in {Predicted(prev.trackers, prev.warp)} :
            \A sim \in [ReidPairs(cfg, pre, last.dets) -> SimValues] :
                \A a1 \in {associate(cfg, pre, last.dets, sim)} :
                    \A gain1 \in [MatchedTrackers(a1) -> Gains] :
                        associateOCR(cfg, pre, last.dets, sim,
                                     a1.unmatched_detections, a1.unmatched_trackers)
                        = associateOCR(cfg, ApplyMatches(pre, last.dets, a1.matched, gain1),
                                       last.dets, sim,
                                       a1.unmatched_detections, a1.unmatched_trackers)

-----------------------------------------------------------------------------
(* Properties of the observation-centric re-update *)

\* the number of update(none) calls at the end of a history
RECURSIVE TrailingMisses(_)
TrailingMisses(hist) ==
    IF hist = <<>> \/ hist[Len(hist)].has THEN 0
    ELSE 1 + TrailingMisses(SubSeq(hist, 1, Len(hist) - 1))

\* the last real observation of a history
LastObserved(hist) == hist[OruIdx2(hist)].z

\* the k-th of m virtual measurements between the observations z1 and z2
Interpolated(z1, z2, m, k) == z1 + (k * (z2 - z1)) \div (m + 1)

\* an update(det) was made, test.pre is the tracker before it, test.post
\* the tracker after it and m the number of update(none) frames before it
UpdateAfter(m) ==
    /\ test.phase \in {"predict", "update", "done"}
    /\ test.pre # <<>>
    /\ TrailingMisses(test.pre.oru_history) = m

-----------------------------------------------------------------------------
(* Properties of the stored observations of a tracker *)

\* the trackers of the engine, and each of them as the next predict
\* leaves it, which is how the score loop of associate reads them
TrackersAndPredicted ==
    Range(trackers) \cup {predict(trackers[i]) : i \in 1 .. Len(trackers)}

\* the ages in (age - k, age - 1] at which t has an observation
LaterInWindow(t, k) ==
    {a \in DOMAIN t.observations_by_age : t.age - k < a /\ a <= t.age - 1}

\* the largest age at which t has an observation
NewestAge(t) ==
    CHOOSE a \in DOMAIN t.observations_by_age :
        \A b \in DOMAIN t.observations_by_age : b <= a

\* C31: kPreviousObservation(k) is the observation at age - k when there
\* is one, else the observation of the smallest age in (age - k, age - 1],
\* else the most recent observation; it is the placeholder with score -1
\* only for a tracker without observations
C31_KPreviousObservation ==
    \A t \in TrackersAndPredicted : \A k \in 1 .. t.delta_t :
        /\ (t.age - k) \in DOMAIN t.observations_by_age =>
              kPreviousObservation(t, k) = t.observations_by_age[t.age - k]
        /\ ((t.age - k) \notin DOMAIN t.observations_by_age
            /\ LaterInWindow(t, k) # {}) =>
              kPreviousObservation(t, k) =
                  t.observations_by_age[SetMin(LaterInWindow(t, k))]
        /\ ((t.age - k) \notin DOMAIN t.observations_by_age
            /\ LaterInWindow(t, k) = {}) =>
              kPreviousObservation(t, k) = t.observations_by_age[NewestAge(t)]
        /\ kPreviousObservation(t, k).score >= 0
        /\ kPreviousObservation([t EXCEPT !.observations_by_age = <<>>], k).score = -Unit

\* the engine holds a tracker with different observations at age - 2 and
\* age - 1, one whose only observation is older than age - 1, and the walk
\* of k = 3 ages passes an age before the tracker was made
C31_Witness ==
    /\ \E t \in TrackersAndPredicted :
          /\ {t.age - 2, t.age - 1} \subseteq DOMAIN t.observations_by_age
          /\ t.observations_by_age[t.age - 2] # t.observations_by_age[t.age - 1]
          /\ t.age - 3 < 0
    /\ \E t \in TrackersAndPredicted :
          /\ LaterInWindow(t, 1) = {}
          /\ t.age >= 2

-----------------------------------------------------------------------------
(* Properties of one update of the appearance bank *)

\* the lowest quality in the bank
LowestQuality(slots) == SetMin({slots[i].q : i \in DOMAIN slots})

\* the slots in which two banks of the same size differ
ChangedSlots(old, new) == {i \in DOMAIN old : old[i] # new[i]}

\* what update(det) does to the bank b, n the position of det among the
\* observations
BankStep(b, new, det, n) ==
    /\ (~det.has_reid \/ det.reid_quality < kMinReidUpdateQuality) => new = b
    /\ (/\ det.has_reid
        /\ det.reid_quality >= kMinReidUpdateQuality
        /\ Len(b.slots) = kAppearanceBankK) =>
            IF det.reid_quality > LowestQuality(b.slots)
            THEN /\ Len(new.slots) = kAppearanceBankK
                 /\ \E w \in DOMAIN b.slots :
                       /\ ChangedSlots(b.slots, new.slots) = {w}
                       /\ b.slots[w].q = LowestQuality(b.slots)
                       /\ new.slots[w] = [q |-> det.reid_quality, src |-> n]
            ELSE new = b

-----------------------------------------------------------------------------
(* Properties of the disjoint-set structure *)

\* the ids linked to those of S by the united pairs, in either direction
RECURSIVE LinkedTo(_)
LinkedTo(S) ==
    LET N == S \cup {p[2] : p \in {q \in links : q[1] \in S}}
               \cup {p[1] : p \in {q \in links : q[2] \in S}}
    IN  IF N = S THEN S ELSE LinkedTo(N)

\* the linked group of x
GroupOf(x) == LinkedTo({x})

\* C33: after any sequence of unite calls find(x) returns the smallest id
\* of the linked group of x, and the id of every merged track is the
\* smallest id among the tracklets merged into it
C33_RootIsSmallestId ==
    /\ p_pc \in {"unite", "merged"} =>
          \A x \in UfIds : ufFind(uf_parent, x).root = SetMin(GroupOf(x))
    /\ p_pc = "merged" =>
          /\ DOMAIN merged_data = {SetMin(GroupOf(x)) : x \in UfIds}
          /\ \A r \in DOMAIN merged_data :
                {merged_data[r][k].frame_index : k \in 1 .. Len(merged_data[r])}
                    = GroupOf(r)

\* three unite calls, one of them with the larger id first, made one
\* group of all ids, and the merge made one track of it
C33_Witness ==
    /\ p_pc = "merged"
    /\ links = {<<2, 3>>, <<1, 0>>, <<3, 1>>}
    /\ DOMAIN merged_data = {0}
    /\ Len(merged_data[0]) = MaxUf

-----------------------------------------------------------------------------
(* Properties of the score matrix in a frame with a warp *)

\* the OCM term of every pair is 0 and the score of every pair that passes
\* the IoU gate is its IoU plus its appearance bonus
OcmTermsVanish(pre, dets, iou_matrix) ==
    /\ \A p \in DOMAIN iou_matrix : AngleCost(cfg, pre[p[2]], dets[p[1]]) = 0
    /\ \A sim \in [ReidPairs(cfg, pre, dets) -> SimValues] :
          \A p \in DOMAIN iou_matrix :
              iou_matrix[p] >= cfg.iou_thresh =>
                  PrimaryScores(cfg, pre, dets, sim, iou_matrix)[p]
                      = iou_matrix[p]
                        + ReidBonus(cfg, pre, dets, sim, p[1], p[2], iou_matrix[p])

\* C34: in a call that applies a warp the OCM term of every pair of
\* detection and tracker of the primary pass is 0, and the combined score
\* is the IoU plus the appearance bonus
C34_NoOcmInWarpedFrame ==
    (last # NoCall /\ prev.warp.given) =>
        \A pre \in {Predicted(prev.trackers, prev.warp)} :
            OcmTermsVanish(pre, last.dets, PrimaryIoU(pre, last.dets))

\* a call with a warp on a tracker that had a direction, and a detection
\* whose OCM term for that tracker is not 0 without the warp
C34_Witness ==
    /\ last # NoCall
    /\ prev.warp.given
    /\ \E i \in 1 .. Len(prev.trackers) : \E d \in 1 .. Len(last.dets) :
          /\ prev.trackers[i].velocity_dir \notin {NoDir, <<0, 0>>}
          /\ AngleCost(cfg, predict(prev.trackers[i]), last.dets[d]) # 0
          /\ iou(last.dets[d].bbox, last.state[prev.trackers[i].track_id])
                >= cfg.iou_thresh

\* C35: last_observation is present and is the entry of
\* observations_by_age of the largest age, also after warps;
\* kPreviousObservation never returns the placeholder; and the observation
\* update(det) measures the direction from is what
\* kPreviousObservation(delta_t) returned just before that update
C35_LastObservationIsNewest ==
    \A t \in Range(trackers) :
        /\ t.last_observation.has
        /\ DOMAIN t.observations_by_age # {}
        /\ t.last_observation.det = t.observations_by_age[NewestAge(t)]
        /\ \A k \in 0 .. t.delta_t : kPreviousObservation(t, k).score >= 0
        /\ last.frame = 1 => last.reference = last.k_previous

\* an update(det) made after a warp and more than delta_t predicts since
\* the last observation: the walk found nothing and the direction was
\* measured from the warped last observation
C35_Witness ==
    /\ last.frame = 1
    /\ \E t \in Range(trackers) :
          /\ t.delta_t = 1
          /\ DOMAIN t.observations_by_age = {0, t.age}
          /\ t.age >= 3
          /\ last.reference = t.observations_by_age[0]
          /\ last.reference.bbox \notin {d.bbox : d \in Detections}

-----------------------------------------------------------------------------
(* Properties of the matches of both passes together *)

\* the lists the primary pass hands to the second pass hold no detection
\* and no tracker of its matches
MatchedNotOffered(a1) ==
    /\ Range(a1.unmatched_trackers) \cap MatchedTrackers(a1) = {}
    /\ Range(a1.unmatched_detections)
          \cap {a1.matched[k][1] : k \in 1 .. Len(a1.matched)} = {}

\* C36: the matches of the primary and the OCR pass of one call together
\* match no detection to two trackers and no tracker to two detections,
\* all trackers are of those present at the start of the call, and a
\* tracker matched in the primary pass is neither offered to nor matched
\* in the OCR pass
C36_MatchesArePartialInjection ==
    last # NoCall =>
        /\ \A p, q \in last.primary \cup last.ocr :
              (p[1] = q[1] \/ p[2] = q[2]) => p = q
        /\ \A p \in last.primary \cup last.ocr :
              p[1] \in 1 .. Len(last.dets) /\ p[2] \in last.before
        /\ last.n_primary = Cardinality(last.primary)
        /\ last.n_ocr = Cardinality(last.ocr)
        /\ last.primary \cap last.ocr = {}
        /\ \A pre \in {Predicted(prev.trackers, prev.warp)} :
              \A sim \in [ReidPairs(cfg, pre, last.dets) -> SimValues] :
                  MatchedNotOffered(associate(cfg, pre, last.dets, sim))

\* a call with a match in the primary pass and a match in the OCR pass
C36_Witness ==
    /\ last # NoCall
    /\ last.n_primary >= 1
    /\ last.n_ocr >= 1
    /\ Len(last.dets) = 2

-----------------------------------------------------------------------------
(* Properties of the calls a tracker receives in a frame *)

\* the tracker of the engine with this id, before the last call
TrackerBefore(id) ==
    prev.trackers[CHOOSE i \in 1 .. Len(prev.trackers) :
                        prev.trackers[i].track_id = id]

\* t has had one predict() and one update() more than b, the update with
\* a detection iff the pair says so
OnePredictOneUpdate(b, t, with_det) ==
    /\ t.age = b.age + 1
    /\ Len(t.oru_history) = Len(b.oru_history) + 1
    /\ SubSeq(t.oru_history, 1, Len(b.oru_history)) = b.oru_history
    /\ t.oru_history[Len(t.oru_history)] = with_det
    /\ t.time_since_update = IF with_det THEN 0 ELSE b.time_since_update + 1

\* C37: in every call of update each tracker present at its start gets
\* one predict() and then one update(), with a detection or with none; so
\* after every call the oru_history_ of each live tracker has age + 1
\* entries and its last entry is a measurement iff time_since_update is 0
C37_OnePredictOneUpdatePerFrame ==
    /\ \A i \in 1 .. Len(trackers) :
          /\ Len(trackers[i].oru_history) = trackers[i].age + 1
          /\ trackers[i].oru_history[Len(trackers[i].oru_history)]
                <=> (trackers[i].time_since_update = 0)
    /\ last # NoCall =>
          \A i \in 1 .. Len(trackers) :
              trackers[i].track_id \in last.before =>
                  OnePredictOneUpdate(TrackerBefore(trackers[i].track_id), trackers[i],
                        \E p \in last.primary \cup last.ocr :
                            p[2] = trackers[i].track_id)

\* a live tracker seen, missed and seen again, next to one that was
\* missed in the last call
C37_Witness ==
    /\ \E i \in 1 .. Len(trackers) : trackers[i].oru_history = <<TRUE, FALSE, TRUE>>
    /\ \E i \in 1 .. Len(trackers) :
          /\ trackers[i].time_since_update = 1
          /\ trackers[i].track_id \in last.before

-----------------------------------------------------------------------------
(* Properties of the groups of linked tracklets *)

\* tracklets i and j end up in the same merged track
SameMergedTrack(i, j) ==
    ufRoot(uf_parent, tracklets[i].id) = ufRoot(uf_parent, tracklets[j].id)

\* the frame indices at which the raw data of tracklet i has an entry of
\* confidence at least span_conf
ConfidentAt(i) ==
    {track_data[tracklets[i].id][k].frame_index :
        k \in SpanPositions(PipelineCfg, track_data[tracklets[i].id])}

\* the span of tracklet i ends before that of tracklet j starts
SpanBefore(i, j) == tracklets[i].end_frame < tracklets[j].start_frame

\* C38: after the linking every tracklet has at most one successor and at
\* most one predecessor, a link leads from a span to a strictly later one,
\* two tracklets are in the same merged track only when links connect
\* them, the spans of the tracklets of a merged track are pairwise
\* disjoint, and no frame index has entries of confidence at least
\* span_conf from two tracklets of the same merged track
C38_LinkedSpansDisjoint ==
    p_pc \in {"merge", "filter", "done"} =>
        /\ \A p, q \in links : (p[1] = q[1] \/ p[2] = q[2]) => p = q
        /\ \A p \in links : SpanBefore(p[1], p[2])
        /\ \A i \in DOMAIN tracklets : tracklets[i].start_frame <= tracklets[i].end_frame
        /\ \A i, j \in DOMAIN tracklets :
              (i # j /\ SameMergedTrack(i, j)) =>
                  /\ j \in LinkedTo({i})
                  /\ SpanBefore(i, j) \/ SpanBefore(j, i)
                  /\ ConfidentAt(i) \cap ConfidentAt(j) = {}

\* a chain of three tracklets whose first has, after its span, entries of
\* low confidence in frames where the second and the third are present
C38_Witness ==
    /\ p_pc = "done"
    /\ links = {<<1, 2>>, <<2, 3>>}
    /\ \E k \in DOMAIN track_data[tracklets[1].id] :
          /\ track_data[tracklets[1].id][k].frame_index \in ConfidentAt(2)
          /\ track_data[tracklets[1].id][k].confidence < SpanConf(PipelineCfg)
    /\ \E k \in DOMAIN track_data[tracklets[1].id] :
          track_data[tracklets[1].id][k].frame_index \in ConfidentAt(3)

-----------------------------------------------------------------------------
(* Properties of the prediction-only entries of the result *)

\* frames a prediction-only entry may lie after the last match
kMaxPredictedFrames == 20

\* max_age of the engine the pipeline builds
PipelineMaxAge == 90

\* the most recent frame up to frame i in which the engine track of plan
\* pl was matched to a detection
LastMatchFrame(pl, i) ==
    pl.start + (CHOOSE k \in 0 .. (i - pl.start) :
                    /\ TsuAt(pl.pattern, k) = 0
                    /\ \A m \in (k + 1) .. (i - pl.start) : TsuAt(pl.pattern, m) # 0)

\* entry e of engine track id lies fewer than 20 frames after the last
\* match of that track
NearMatch(id, e) ==
    e.frame_index - LastMatchFrame(scenario[id + 1], e.frame_index) < kMaxPredictedFrames

\* the engine tracks whose raw data holds entry e
EngineTracksOf(e) ==
    {id \in DOMAIN track_data :
        \E k \in DOMAIN track_data[id] : track_data[id][k] = e}

\* C39: no entry recorded for an engine track, and so no entry of a track
\* of the result, lies 20 or more frames after the most recent frame in
\* which that engine track was matched to a detection, although the
\* engine emits the track for as long as max_age allows
C39_NoEntryLongAfterMatch ==
    /\ \A id \in DOMAIN track_data :
          \A k \in DOMAIN track_data[id] : NearMatch(id, track_data[id][k])
    /\ \A n \in DOMAIN tracks :
          \A k \in DOMAIN tracks[n].frames :
              /\ EngineTracksOf(tracks[n].frames[k]) # {}
              /\ \A id \in EngineTracksOf(tracks[n].frames[k]) :
                    NearMatch(id, tracks[n].frames[k])

\* the result holds an entry 19 frames after the last match of its
\* engine track, and the engine, which keeps the track for max_age
\* frames, emitted that track in the two frames after it too
C39_Witness ==
    /\ p_pc = "done"
    /\ \E n \in DOMAIN tracks :
          \E k \in DOMAIN tracks[n].frames :
              \E e \in {tracks[n].frames[k]} :
                  /\ 0 \in EngineTracksOf(e)
                  /\ e.frame_index - LastMatchFrame(scenario[1], e.frame_index) = 19
                  /\ e.confidence = kMinOutputConfidence
                  /\ e.frame_index + 2 < MaxPFrames
                  /\ TsuAt(scenario[1].pattern, e.frame_index + 2) <= PipelineMaxAge
                  /\ 0 \in DOMAIN ActiveTracks(scenario, e.frame_index + 1)
                  /\ 0 \in DOMAIN ActiveTracks(scenario, e.frame_index + 2)

-----------------------------------------------------------------------------
(* Properties of the step cycle of solve *)

\* an infinity or the NaN is among the working values
Overflowed ==
    h_st # NoWork
    /\ \E p \in DOMAIN h_st.w.dist : h_st.w.dist[p] \in {Infinity, -Infinity, NaN}

\* C40: solve terminates on every matrix of finite entries: the cycle of
\* step3, step4 and step5 reaches step2b with min(M, N) columns covered,
\* and the assignment is built
C40_SolveTerminates == <>(h_pc = "done")

\* the cycle ends whenever no difference or sum of the values leaves the
\* range of the finite doubles
TerminatesWithoutOverflow == <>(h_pc = "done" \/ Overflowed)

\* a run through step4 and step5 that ends with the assignment built
CycleEnds ==
    /\ h_pc = "done"
    /\ h_st.w.R = 2 /\ h_st.w.C = 2
    /\ \A row \in Rows(h_st.w) : h_assignment[row] >= 0
    /\ \E p \in DOMAIN h_st.w.dist : h_st.w.dist[p] # h_cost.m[p] /\ h_cost.m[p] = 0

====
